---- MODULE Spec2Model ----
(***************************************************************************)
(* A model of the arango-unix-proxy request path: UnixReverseProxy.ServeHTTP *)
(* with its request-local body peeker, and the two access policies          *)
(* AllowReadOnly and AllowReadWrite with the path matchers they call.       *)
(*                                                                         *)
(* Text (paths, methods, bodies, queries) is held as TLA+ strings, that is  *)
(* as sequences of characters: Len, SubSeq and \o are the byte operations.  *)
(***************************************************************************)
EXTENDS Integers, Sequences, FiniteSets, TLC

(***************************************************************************)
(* Package strings: the functions of Go's strings package the code calls.   *)
(***************************************************************************)

\* s[i-1] in Go (1-based here); "" outside the string.
At(s, i) == IF i >= 1 /\ i <= Len(s) THEN SubSeq(s, i, i) ELSE ""

\* s[i-1:] in Go.
From(s, i) == IF i > Len(s) THEN "" ELSE SubSeq(s, i, Len(s))

HasPrefix(s, prefix) ==
    Len(s) >= Len(prefix) /\ SubSeq(s, 1, Len(prefix)) = prefix

\* strings.Index, 1-based; 0 when sub does not occur (Go returns -1).
Index(s, sub) ==
    IF \E i \in 1..(Len(s) - Len(sub) + 1) : SubSeq(s, i, i + Len(sub) - 1) = sub
    THEN CHOOSE i \in 1..(Len(s) - Len(sub) + 1) :
             /\ SubSeq(s, i, i + Len(sub) - 1) = sub
             /\ \A j \in 1..(i - 1) : SubSeq(s, j, j + Len(sub) - 1) # sub
    ELSE 0

Contains(s, sub) ==
    \E i \in 1..(Len(s) - Len(sub) + 1) : SubSeq(s, i, i + Len(sub) - 1) = sub

LowerLetters == "abcdefghijklmnopqrstuvwxyz"
UpperLetters == "ABCDEFGHIJKLMNOPQRSTUVWXYZ"
Digits == "0123456789"

InChars(c, chars) == Len(c) = 1 /\ \E i \in 1..Len(chars) : SubSeq(chars, i, i) = c

ToUpperChar(c) ==
    IF InChars(c, LowerLetters) THEN At(UpperLetters, Index(LowerLetters, c)) ELSE c

RECURSIVE ToUpper(_)
ToUpper(s) ==
    IF s = "" THEN "" ELSE ToUpperChar(At(s, 1)) \o ToUpper(From(s, 2))

ToLowerChar(c) ==
    IF InChars(c, UpperLetters) THEN At(LowerLetters, Index(UpperLetters, c)) ELSE c

RECURSIVE ToLower(_)
ToLower(s) ==
    IF s = "" THEN "" ELSE ToLowerChar(At(s, 1)) \o ToLower(From(s, 2))

\* strings.EqualFold over the ASCII letters.
EqualFold(a, b) == ToUpper(a) = ToUpper(b)

\* The separator predicate AllowReadOnly hands to strings.FieldsFunc:
\* func(r rune) bool { return r < 'A' || r > 'Z' }.
NotAZ(c) == ~InChars(c, UpperLetters)

\* strings.FieldsFunc(s, NotAZ): the maximal runs of non-separator characters,
\* in order. cur is the run being collected.
RECURSIVE FieldsFrom(_, _, _)
FieldsFrom(s, i, cur) ==
    IF i > Len(s)
    THEN IF cur = "" THEN <<>> ELSE <<cur>>
    ELSE IF NotAZ(At(s, i))
         THEN (IF cur = "" THEN <<>> ELSE <<cur>>) \o FieldsFrom(s, i + 1, "")
         ELSE FieldsFrom(s, i + 1, cur \o At(s, i))

FieldsFuncNotAZ(s) == FieldsFrom(s, 1, "")

(***************************************************************************)
(* Path matchers (proxy_common.go).                                         *)
(***************************************************************************)

AllIn(s, chars) == \A i \in 1..Len(s) : InChars(At(s, i), chars)

\* The character class [a-zA-Z0-9_-] of cursorPathRegexp, which the loop of
\* HasAPIPathPrefix spells out again for the database name.
DBNameChars == LowerLetters \o UpperLetters \o Digits \o "_-"

\* IsCursorPath with [0-9]* for the cursor id: a bare trailing slash passes.
IsCursorPath_EmptyID(path) ==
    \E i \in 0..Len(path) : \E j \in i..Len(path) :
        LET pre == SubSeq(path, 1, i)
            mid == SubSeq(path, i + 1, j)
            suf == From(path, j + 1)
        IN  /\ mid = "/_api/cursor"
            /\ \/ pre = ""
               \/ /\ HasPrefix(pre, "/_db/")
                  /\ Len(pre) > 5
                  /\ AllIn(From(pre, 6), DBNameChars)
            /\ \/ suf = ""
               \/ /\ At(suf, 1) = "/"
                  /\ AllIn(From(suf, 2), Digits)

\* cursorPathRegexp.MatchString(path) for
\* ^(/_db/[a-zA-Z0-9_-]+)?/_api/cursor(?:/[0-9]+)?$
\* path is split as pre \o "/_api/cursor" \o suf at every possible place.
IsCursorPath(path) ==
    \E i \in 0..Len(path) : \E j \in i..Len(path) :
        LET pre == SubSeq(path, 1, i)
            mid == SubSeq(path, i + 1, j)
            suf == From(path, j + 1)
        IN  /\ mid = "/_api/cursor"
            /\ \/ pre = ""
               \/ /\ HasPrefix(pre, "/_db/")
                  /\ Len(pre) > 5
                  /\ AllIn(From(pre, 6), DBNameChars)
            /\ \/ suf = ""
               \/ /\ At(suf, 1) = "/"
                  /\ Len(suf) > 1
                  /\ AllIn(From(suf, 2), Digits)

\* strings.Split(s, "/"): the segments between slashes, empty ones included.
RECURSIVE SplitSlash(_, _, _)
SplitSlash(s, i, cur) ==
    IF i > Len(s) THEN <<cur>>
    ELSE IF At(s, i) = "/" THEN <<cur>> \o SplitSlash(s, i + 1, "")
         ELSE SplitSlash(s, i + 1, cur \o At(s, i))

\* The segment walk of filepath.Clean: empty and "." segments are dropped, a
\* ".." segment removes the segment before it, is dropped at the root of a
\* rooted path and is kept at the front of a relative one.
RECURSIVE CleanSegs(_, _, _, _)
CleanSegs(segs, i, rooted, out) ==
    IF i > Len(segs) THEN out
    ELSE LET seg == segs[i] IN
         IF seg = "" \/ seg = "." THEN CleanSegs(segs, i + 1, rooted, out)
         ELSE IF seg = ".."
              THEN IF Len(out) > 0 /\ out[Len(out)] # ".."
                   THEN CleanSegs(segs, i + 1, rooted, SubSeq(out, 1, Len(out) - 1))
                   ELSE IF rooted
                        THEN CleanSegs(segs, i + 1, rooted, out)
                        ELSE CleanSegs(segs, i + 1, rooted, Append(out, ".."))
              ELSE CleanSegs(segs, i + 1, rooted, Append(out, seg))

RECURSIVE JoinSlash(_, _)
JoinSlash(segs, i) ==
    IF i > Len(segs) THEN ""
    ELSE IF i = Len(segs) THEN segs[i]
         ELSE segs[i] \o "/" \o JoinSlash(segs, i + 1)

\* filepath.Clean on a Unix build.
Clean(path) ==
    LET Joined(rooted, out) ==
            IF rooted THEN "/" \o JoinSlash(out, 1)
            ELSE IF out = <<>> THEN "." ELSE JoinSlash(out, 1)
        Cleaned(rooted) ==
            Joined(rooted, CleanSegs(SplitSlash(path, 1, ""), 1, rooted, <<>>))
    IN  IF path = "" THEN "." ELSE Cleaned(At(path, 1) = "/")

\* matchesAPIPath without the look at the character after apiPath.
matchesAPIPath_PrefixOnly(path, apiPath) == HasPrefix(path, apiPath)

matchesAPIPath(path, apiPath) ==
    IF ~HasPrefix(path, apiPath) THEN FALSE
    ELSE IF Len(path) = Len(apiPath) THEN TRUE
         ELSE At(path, Len(apiPath) + 1) \in {"/", "?"}

\* HasAPIPathPrefix relying on filepath.Clean alone against traversal.
HasAPIPathPrefix_CleanOnly(fullPath, apiPath) ==
    LET AfterDB(rest, slashIdx) ==
            IF slashIdx > 1
            THEN /\ AllIn(SubSeq(rest, 1, slashIdx - 1), DBNameChars)
                 /\ matchesAPIPath(From(rest, slashIdx), apiPath)
            ELSE FALSE
        DBMatch(rest) == AfterDB(rest, Index(rest, "/"))
        Match(cleanPath) ==
            IF matchesAPIPath(cleanPath, apiPath) THEN TRUE
            ELSE IF HasPrefix(cleanPath, "/_db/") THEN DBMatch(From(cleanPath, 6))
            ELSE FALSE
        Rooted(cleaned) == IF ~HasPrefix(cleaned, "/") THEN "/" \o cleaned ELSE cleaned
    IN  Match(Rooted(Clean(fullPath)))

\* HasAPIPathPrefix as the substring test its comment warns against.
HasAPIPathPrefix_Contains(fullPath, apiPath) == Contains(fullPath, apiPath)

HasAPIPathPrefix(fullPath, apiPath) ==
    LET \* lines 353-375: the database-prefixed match on cleanPath[5:]
        AfterDB(rest, slashIdx) ==
            IF slashIdx > 1
            THEN \* dbName = rest[:slashIdx], pathAfterDB = rest[slashIdx:]
                 /\ AllIn(SubSeq(rest, 1, slashIdx - 1), DBNameChars)
                 /\ matchesAPIPath(From(rest, slashIdx), apiPath)
            ELSE FALSE
        DBMatch(rest) == AfterDB(rest, Index(rest, "/"))
        Match(cleanPath) ==
            IF Contains(fullPath, "..") THEN FALSE
            ELSE IF matchesAPIPath(cleanPath, apiPath) THEN TRUE
            ELSE IF HasPrefix(cleanPath, "/_db/") THEN DBMatch(From(cleanPath, 6))
            ELSE FALSE
        Rooted(cleaned) == IF ~HasPrefix(cleaned, "/") THEN "/" \o cleaned ELSE cleaned
    IN  Match(Rooted(Clean(fullPath)))

(***************************************************************************)
(* encoding/json, as far as json.Unmarshal(body, &payload) of AllowReadOnly *)
(* uses it: payload is struct { Query string `json:"query"` }.              *)
(* Positions are 1-based; a scan returns the position after the element it  *)
(* accepted, or 0 when the text is not valid JSON there.                    *)
(***************************************************************************)

JSONSpace == " \t\r\n"

\* The printable ASCII characters in code point order: U+0020 .. U+005F, and
\* U+0061 .. U+007E (a TLA+ string cannot hold U+0060, the backquote).
ASCIILow == " !\"#$%&'()*+,-./0123456789:;<=>?@ABCDEFGHIJKLMNOPQRSTUVWXYZ[\\]^_"
ASCIIHigh == "abcdefghijklmnopqrstuvwxyz{|}~"

HexDigits == "0123456789ABCDEF"

IsHex(c) == InChars(ToUpperChar(c), HexDigits)

HexVal(c) == Index(HexDigits, ToUpperChar(c)) - 1

\* The character a \uXXXX escape stands for. Code points outside the two
\* ranges above are not part of the alphabet of the model and are shown as "?".
RuneOfHex4(h) ==
    LET Rune(code) ==
            IF code >= 32 /\ code <= 95 THEN At(ASCIILow, code - 31)
            ELSE IF code >= 97 /\ code <= 126 THEN At(ASCIIHigh, code - 96)
            ELSE "?"
    IN  Rune(4096 * HexVal(At(h, 1)) + 256 * HexVal(At(h, 2))
             + 16 * HexVal(At(h, 3)) + HexVal(At(h, 4)))

RECURSIVE SkipWS(_, _)
SkipWS(s, i) ==
    IF i <= Len(s) /\ InChars(At(s, i), JSONSpace) THEN SkipWS(s, i + 1) ELSE i

\* The position after the closing quote of the string whose content starts
\* at i.
RECURSIVE StringEnd(_, _)
StringEnd(s, i) ==
    IF i > Len(s) THEN 0
    ELSE IF At(s, i) = "\"" THEN i + 1
    ELSE IF At(s, i) = "\\"
         THEN IF InChars(At(s, i + 1), "\"\\/bfnrt") THEN StringEnd(s, i + 2)
              ELSE IF /\ At(s, i + 1) = "u"
                      /\ i + 5 <= Len(s)
                      /\ \A k \in 2..5 : IsHex(At(s, i + k))
                   THEN StringEnd(s, i + 6)
                   ELSE 0
    ELSE IF InChars(At(s, i), "\t\r\n") THEN 0
    ELSE StringEnd(s, i + 1)

\* What the escape \e stands for (e is not "u").
EscapedChar(e) ==
    CASE e = "n" -> "\n"
      [] e = "t" -> "\t"
      [] e = "r" -> "\r"
      [] e \in {"b", "f"} -> "?"
      [] OTHER -> e

\* The text of the valid string literal whose content starts at i, with its
\* escapes resolved.
RECURSIVE Unquote(_, _)
Unquote(s, i) ==
    IF i > Len(s) \/ At(s, i) = "\"" THEN ""
    ELSE IF At(s, i) = "\\"
         THEN IF At(s, i + 1) = "u"
              THEN RuneOfHex4(SubSeq(s, i + 2, i + 5)) \o Unquote(s, i + 6)
              ELSE EscapedChar(At(s, i + 1)) \o Unquote(s, i + 2)
    ELSE At(s, i) \o Unquote(s, i + 1)

RECURSIVE DigitsEnd(_, _)
DigitsEnd(s, i) == IF InChars(At(s, i), Digits) THEN DigitsEnd(s, i + 1) ELSE i

\* -? (0 | [1-9][0-9]*) (\.[0-9]+)? ([eE][+-]?[0-9]+)?
NumberEnd(s, i) ==
    LET DigitsFrom(x) == IF InChars(At(s, x), Digits) THEN DigitsEnd(s, x) ELSE 0
        Exponent(c) ==
            IF c # 0 /\ InChars(At(s, c), "eE")
            THEN DigitsFrom(IF InChars(At(s, c + 1), "+-") THEN c + 2 ELSE c + 1)
            ELSE c
        Fraction(b) ==
            Exponent(IF b # 0 /\ At(s, b) = "." THEN DigitsFrom(b + 1) ELSE b)
        Integer(a) ==
            Fraction(IF At(s, a) = "0" THEN a + 1 ELSE DigitsFrom(a))
    IN  Integer(IF At(s, i) = "-" THEN i + 1 ELSE i)

IsLiteralAt(s, i, lit) == HasPrefix(From(s, i), lit)

RECURSIVE ValueEnd(_, _)
RECURSIVE MembersEnd(_, _)
RECURSIVE ElementsEnd(_, _)

\* The members of an object from the key at k on: key : value, then "," and
\* the next member, or the closing brace.
MembersEnd(s, k) ==
    LET Separator(n) ==
            IF At(s, n) = "," THEN MembersEnd(s, SkipWS(s, n + 1))
            ELSE IF At(s, n) = "}" THEN n + 1
            ELSE 0
        AfterValue(ve) == IF ve = 0 THEN 0 ELSE Separator(SkipWS(s, ve))
        Colon(c) ==
            IF At(s, c) # ":" THEN 0 ELSE AfterValue(ValueEnd(s, SkipWS(s, c + 1)))
        AfterKey(e) == IF e = 0 THEN 0 ELSE Colon(SkipWS(s, e))
    IN  IF At(s, k) # "\"" THEN 0 ELSE AfterKey(StringEnd(s, k + 1))

\* The elements of an array from the value at k on.
ElementsEnd(s, k) ==
    LET Separator(n) ==
            IF At(s, n) = "," THEN ElementsEnd(s, SkipWS(s, n + 1))
            ELSE IF At(s, n) = "]" THEN n + 1
            ELSE 0
        AfterValue(ve) == IF ve = 0 THEN 0 ELSE Separator(SkipWS(s, ve))
    IN  AfterValue(ValueEnd(s, k))

\* The value starting at i (white space already skipped).
ValueEnd(s, i) ==
    LET Object(k) == IF At(s, k) = "}" THEN k + 1 ELSE MembersEnd(s, k)
        Array(k) == IF At(s, k) = "]" THEN k + 1 ELSE ElementsEnd(s, k)
    IN  IF At(s, i) = "{" THEN Object(SkipWS(s, i + 1))
        ELSE IF At(s, i) = "[" THEN Array(SkipWS(s, i + 1))
        ELSE IF At(s, i) = "\"" THEN StringEnd(s, i + 1)
        ELSE IF At(s, i) = "-" \/ InChars(At(s, i), Digits) THEN NumberEnd(s, i)
        ELSE IF IsLiteralAt(s, i, "null") THEN i + 4
        ELSE IF IsLiteralAt(s, i, "true") THEN i + 4
        ELSE IF IsLiteralAt(s, i, "false") THEN i + 5
        ELSE 0

\* checkValid: one value, white space around it, nothing else.
ValidJSON(s) ==
    LET Trailing(e) == e # 0 /\ SkipWS(s, e) = Len(s) + 1
    IN  Trailing(ValueEnd(s, SkipWS(s, 1)))

\* The member loop of the decoder on a valid object; k is at a key or at the
\* closing brace. A key names the Query field when it equals the tag "query"
\* or differs from it only in letter case; a string value is stored, null is
\* skipped, any other value leaves the field alone and records an
\* UnmarshalTypeError, and decoding goes on with the next member, so a later
\* member overwrites what an earlier one stored.
RECURSIVE DecodeMembers(_, _, _)
DecodeMembers(s, k, st) ==
    LET Stored(key, v) ==
            IF ~EqualFold(key, "query") THEN st
            ELSE IF At(s, v) = "\"" THEN [st EXCEPT !.Query = Unquote(s, v + 1)]
            ELSE IF IsLiteralAt(s, v, "null") THEN st
            ELSE [st EXCEPT !.err = TRUE]
        Rest(n, st2) ==
            IF At(s, n) = "," THEN DecodeMembers(s, SkipWS(s, n + 1), st2) ELSE st2
        Value(key, v) == Rest(SkipWS(s, ValueEnd(s, v)), Stored(key, v))
        Colon(key, c) == Value(key, SkipWS(s, c + 1))
    IN  IF At(s, k) # "\"" THEN st
        ELSE Colon(Unquote(s, k + 1), SkipWS(s, StringEnd(s, k + 1)))

\* json.Unmarshal(text, &payload) with payload zeroed: err tells whether an
\* error is returned, Query is payload.Query afterwards.
Unmarshal(s) ==
    LET Top(i) ==
            IF At(s, i) = "{"
            THEN DecodeMembers(s, SkipWS(s, i + 1), [err |-> FALSE, Query |-> ""])
            ELSE IF IsLiteralAt(s, i, "null") THEN [err |-> FALSE, Query |-> ""]
            ELSE [err |-> TRUE, Query |-> ""]
    IN  IF ~ValidJSON(s) THEN [err |-> TRUE, Query |-> ""] ELSE Top(SkipWS(s, 1))

(***************************************************************************)
(* Values.                                                                  *)
(*                                                                         *)
(* A byte slice is a record [text, pad]: the characters of text followed by *)
(* pad space characters (0x20). The padding lets a body reach the real      *)
(* inspection limits (128 KiB, 16 MiB) without the model holding that many  *)
(* characters. Trailing spaces change neither what json.Unmarshal returns   *)
(* (white space after the value is skipped, and an all-space input is as    *)
(* invalid as an empty one) nor whether the upper-cased bytes contain a      *)
(* keyword (no keyword holds a space), so both are computed from text.      *)
(***************************************************************************)

Bytes(text, pad) == [text |-> text, pad |-> pad]

NoBytes == Bytes("", 0)

ByteLen(b) == Len(b.text) + b.pad

\* r.Body: absent (nil), or a stream that yields data, or a stream whose first
\* Read returns an error.
Stream(data, fail) == [absent |-> FALSE, data |-> data, fail |-> fail]

NilBody == [absent |-> TRUE, data |-> NoBytes, fail |-> FALSE]

\* error values: nil, or an error with its Error() text.
Nil == [isNil |-> TRUE, msg |-> ""]

Error(msg) == [isNil |-> FALSE, msg |-> msg]

\* The error a failing inbound stream returns from Read.
ErrRead == Error("unexpected EOF")

RECURSIVE Itoa(_)
Itoa(n) ==
    IF n < 10 THEN At(Digits, n + 1) ELSE Itoa(n \div 10) \o At(Digits, (n % 10) + 1)

\* %q of a token of letters.
Quote(s) == "\"" \o s \o "\""

MaxBodyPeekSize == 16 * 1024 * 1024

\* The limit AllowReadOnly passes to peek.
ReadOnlyPeekLimit == 128 * 1024

ForbiddenAQLKeywords ==
    {"INSERT", "UPDATE", "UPSERT", "REMOVE", "REPLACE", "TRUNCATE", "DROP"}

forbiddenKeywordsList ==
    <<"INSERT", "UPDATE", "UPSERT", "REMOVE", "REPLACE", "TRUNCATE", "DROP">>

AllowedRWAPIPaths ==
    <<"/_api/document", "/_api/collection", "/_api/index", "/_api/import">>

(***************************************************************************)
(* The body peeker: the bodyReader closure of ServeHTTP. pk is the state it *)
(* closes over, [bodyConsumed, cachedBody, bodyClosed], with the log of the *)
(* calls made so far; body is r.Body. The result holds the returned slice   *)
(* and error and the state afterwards.                                      *)
(***************************************************************************)

\* One entry of the call log: the limit asked for, what the call returned, and
\* how many bytes it read from the stream (read = 0 and touched = FALSE when
\* the call left the stream alone).
PeekCall(limit, data, err, touched, read) ==
    [limit |-> limit, data |-> data, err |-> err, touched |-> touched, read |-> read]

Min(a, b) == IF a <= b THEN a ELSE b

\* effectiveLimitOf taking a limit of zero or less as it stands.
effectiveLimitOf_NoCeilingForZero(limit) ==
    IF limit > MaxBodyPeekSize THEN MaxBodyPeekSize ELSE limit

effectiveLimitOf(limit) ==
    IF limit <= 0 \/ limit > MaxBodyPeekSize THEN MaxBodyPeekSize ELSE limit

\* bodyReader holding the cached bytes against the limit of every later call.
bodyReader_LimitOnCache(pk, body, limit) ==
    LET Result(data, err, consumed, closed, cached, touched, read) ==
            [data |-> data, err |-> err,
             pk   |-> [bodyConsumed |-> consumed, bodyClosed |-> closed,
                       cachedBody |-> cached,
                       calls |-> Append(pk.calls,
                                        PeekCall(limit, data, err, touched, read))]]
        Read(effectiveLimit) ==
            IF body.fail
            THEN Result(NoBytes, ErrRead, TRUE, TRUE, pk.cachedBody, TRUE, 0)
            ELSE IF effectiveLimit + 1 - ByteLen(body.data) <= 0
            THEN Result(NoBytes,
                        Error("request body exceeds inspection limit ("
                              \o Itoa(effectiveLimit) \o " bytes)"),
                        TRUE, TRUE, pk.cachedBody, TRUE, effectiveLimit + 1)
            ELSE Result(body.data, Nil, TRUE, TRUE, body.data, TRUE,
                        ByteLen(body.data))
        Cached(effectiveLimit) ==
            IF ByteLen(pk.cachedBody) > effectiveLimit
            THEN Result(NoBytes,
                        Error("request body exceeds inspection limit ("
                              \o Itoa(effectiveLimit) \o " bytes)"),
                        TRUE, pk.bodyClosed, pk.cachedBody, FALSE, 0)
            ELSE Result(pk.cachedBody, Nil, TRUE, pk.bodyClosed, pk.cachedBody,
                        FALSE, 0)
    IN  IF pk.bodyConsumed
        THEN Cached(effectiveLimitOf(limit))
        ELSE IF body.absent
        THEN Result(NoBytes, Nil, TRUE, pk.bodyClosed, pk.cachedBody, FALSE, 0)
        ELSE Read(effectiveLimitOf(limit))

\* bodyReader leaving the stream open when the read fails or runs over the limit.
bodyReader_CloseOnSuccessOnly(pk, body, limit) ==
    LET Result(data, err, consumed, closed, cached, touched, read) ==
            [data |-> data, err |-> err,
             pk   |-> [bodyConsumed |-> consumed, bodyClosed |-> closed,
                       cachedBody |-> cached,
                       calls |-> Append(pk.calls,
                                        PeekCall(limit, data, err, touched, read))]]
        Read(effectiveLimit) ==
            IF body.fail
            THEN Result(NoBytes, ErrRead, TRUE, pk.bodyClosed, pk.cachedBody, TRUE, 0)
            ELSE IF effectiveLimit + 1 - ByteLen(body.data) <= 0
            THEN Result(NoBytes,
                        Error("request body exceeds inspection limit ("
                              \o Itoa(effectiveLimit) \o " bytes)"),
                        TRUE, pk.bodyClosed, pk.cachedBody, TRUE, effectiveLimit + 1)
            ELSE Result(body.data, Nil, TRUE, TRUE, body.data, TRUE,
                        ByteLen(body.data))
    IN  IF pk.bodyConsumed
        THEN Result(pk.cachedBody, Nil, TRUE, pk.bodyClosed, pk.cachedBody, FALSE, 0)
        ELSE IF body.absent
        THEN Result(NoBytes, Nil, TRUE, pk.bodyClosed, pk.cachedBody, FALSE, 0)
        ELSE Read(effectiveLimitOf(limit))

bodyReader(pk, body, limit) ==
    LET Result(data, err, consumed, closed, cached, touched, read) ==
            [data |-> data, err |-> err,
             pk   |-> [bodyConsumed |-> consumed, bodyClosed |-> closed,
                       cachedBody |-> cached,
                       calls |-> Append(pk.calls,
                                        PeekCall(limit, data, err, touched, read))]]
        \* lines 154-169. io.LimitedReader{N: effectiveLimit + 1}: lr.N <= 0
        \* afterwards iff the stream held at least effectiveLimit + 1 bytes.
        Read(effectiveLimit) ==
            IF body.fail
            THEN Result(NoBytes, ErrRead, TRUE, TRUE, pk.cachedBody, TRUE, 0)
            ELSE IF effectiveLimit + 1 - ByteLen(body.data) <= 0
            THEN Result(NoBytes,
                        Error("request body exceeds inspection limit ("
                              \o Itoa(effectiveLimit) \o " bytes)"),
                        TRUE, TRUE, pk.cachedBody, TRUE, effectiveLimit + 1)
            ELSE Result(body.data, Nil, TRUE, TRUE, body.data, TRUE,
                        ByteLen(body.data))
    IN  IF pk.bodyConsumed
        THEN Result(pk.cachedBody, Nil, TRUE, pk.bodyClosed, pk.cachedBody, FALSE, 0)
        ELSE IF body.absent
        THEN Result(NoBytes, Nil, TRUE, pk.bodyClosed, pk.cachedBody, FALSE, 0)
        ELSE Read(effectiveLimitOf(limit))

(***************************************************************************)
(* The policies. Each returns the error (Nil to allow) and the peeker state *)
(* its peek calls leave behind.                                             *)
(***************************************************************************)

\* The first token that is a forbidden keyword, "" when there is none.
RECURSIVE FirstForbiddenToken(_, _)
FirstForbiddenToken(tokens, i) ==
    IF i > Len(tokens) THEN ""
    ELSE IF tokens[i] \in ForbiddenAQLKeywords THEN tokens[i]
    ELSE FirstForbiddenToken(tokens, i + 1)

\* The first keyword of the list that upper contains, "" when there is none.
RECURSIVE FirstKeywordIn(_, _)
FirstKeywordIn(upper, i) ==
    IF i > Len(forbiddenKeywordsList) THEN ""
    ELSE IF Contains(upper, forbiddenKeywordsList[i]) THEN forbiddenKeywordsList[i]
    ELSE FirstKeywordIn(upper, i + 1)

\* CheckCursorBody looking for the keywords as substrings of the query text.
CheckCursorBody_SubstringInQuery(body) ==
    LET Found(keyword, where) ==
            IF keyword # ""
            THEN Error("forbidden keyword " \o Quote(keyword) \o " detected in " \o where)
            ELSE Nil
        Check(payload) ==
            IF ~payload.err /\ payload.Query # ""
            THEN Found(FirstKeywordIn(ToUpper(payload.Query), 1), "AQL")
            ELSE Found(FirstKeywordIn(ToUpper(body.text), 1), "request body")
    IN  Check(Unmarshal(body.text))

\* CheckCursorBody looking for whole tokens in the fallback scan too.
CheckCursorBody_TokensInFallback(body) ==
    LET Found(keyword, where) ==
            IF keyword # ""
            THEN Error("forbidden keyword " \o Quote(keyword) \o " detected in " \o where)
            ELSE Nil
        Check(payload) ==
            IF ~payload.err /\ payload.Query # ""
            THEN Found(FirstForbiddenToken(FieldsFuncNotAZ(ToUpper(payload.Query)), 1),
                       "AQL")
            ELSE Found(FirstForbiddenToken(FieldsFuncNotAZ(ToUpper(body.text)), 1),
                       "request body")
    IN  Check(Unmarshal(body.text))

\* Lines 69-91 of AllowReadOnly: the keyword check on the peeked body.
CheckCursorBody(body) ==
    LET InQuery(token) ==
            IF token # ""
            THEN Error("forbidden keyword " \o Quote(token) \o " detected in AQL")
            ELSE Nil
        InBody(keyword) ==
            IF keyword # ""
            THEN Error("forbidden keyword " \o Quote(keyword)
                       \o " detected in request body")
            ELSE Nil
        Check(payload) ==
            IF ~payload.err /\ payload.Query # ""
            THEN InQuery(FirstForbiddenToken(FieldsFuncNotAZ(ToUpper(payload.Query)), 1))
            ELSE InBody(FirstKeywordIn(ToUpper(body.text), 1))
    IN  Check(Unmarshal(body.text))

NotPermitted(method, path) ==
    Error("method " \o method \o " not permitted on " \o path)

\* AllowReadOnly peeking the body of every POST before it looks at the path.
AllowReadOnly_PeeksEveryPost(req, pk) ==
    LET Peeked(res) ==
            IF ~res.err.isNil THEN [err |-> res.err, pk |-> res.pk]
            ELSE IF IsCursorPath(req.Path)
            THEN [err |-> CheckCursorBody(res.data), pk |-> res.pk]
            ELSE [err |-> NotPermitted(req.Method, req.Path), pk |-> res.pk]
    IN  IF req.Method \in {"GET", "HEAD", "OPTIONS"}
        THEN [err |-> Nil, pk |-> pk]
        ELSE IF req.Method = "POST"
        THEN Peeked(bodyReader(pk, req.Body, ReadOnlyPeekLimit))
        ELSE IF req.Method = "DELETE" /\ IsCursorPath(req.Path)
        THEN [err |-> Nil, pk |-> pk]
        ELSE [err |-> NotPermitted(req.Method, req.Path), pk |-> pk]

\* AllowReadOnly letting PUT through on cursor paths, as DELETE is.
AllowReadOnly_PutOnCursor(req, pk) ==
    LET Peeked(res) ==
            IF ~res.err.isNil THEN [err |-> res.err, pk |-> res.pk]
            ELSE [err |-> CheckCursorBody(res.data), pk |-> res.pk]
    IN  IF req.Method \in {"GET", "HEAD", "OPTIONS"}
        THEN [err |-> Nil, pk |-> pk]
        ELSE IF req.Method = "POST" /\ IsCursorPath(req.Path)
        THEN Peeked(bodyReader(pk, req.Body, ReadOnlyPeekLimit))
        ELSE IF req.Method \in {"DELETE", "PUT"} /\ IsCursorPath(req.Path)
        THEN [err |-> Nil, pk |-> pk]
        ELSE [err |-> NotPermitted(req.Method, req.Path), pk |-> pk]

AllowReadOnly(req, pk) ==
    LET Peeked(res) ==
            IF ~res.err.isNil THEN [err |-> res.err, pk |-> res.pk]
            ELSE [err |-> CheckCursorBody(res.data), pk |-> res.pk]
    IN  IF req.Method \in {"GET", "HEAD", "OPTIONS"}
        THEN [err |-> Nil, pk |-> pk]
        ELSE IF req.Method = "POST" /\ IsCursorPath(req.Path)
        THEN Peeked(bodyReader(pk, req.Body, ReadOnlyPeekLimit))
        ELSE IF req.Method = "DELETE" /\ IsCursorPath(req.Path)
        THEN [err |-> Nil, pk |-> pk]
        ELSE [err |-> NotPermitted(req.Method, req.Path), pk |-> pk]

HasAnyAPIPathPrefix(path, apiPaths) ==
    \E i \in 1..Len(apiPaths) : HasAPIPathPrefix(path, apiPaths[i])

\* AllowReadWrite without the delegation to AllowReadOnly.
AllowReadWrite_NoDelegation(req, pk) ==
    IF /\ req.Method = "POST"
       /\ \/ IsCursorPath(req.Path)
          \/ HasAnyAPIPathPrefix(req.Path, AllowedRWAPIPaths)
    THEN [err |-> Nil, pk |-> pk]
    ELSE IF /\ req.Method \in {"PUT", "PATCH", "DELETE"}
            /\ HasAnyAPIPathPrefix(req.Path,
                   <<"/_api/document", "/_api/collection", "/_api/index">>)
    THEN [err |-> Nil, pk |-> pk]
    ELSE [err |-> NotPermitted(req.Method, req.Path), pk |-> pk]

\* AllowReadWrite checking PUT, PATCH and DELETE against AllowedRWAPIPaths.
AllowReadWrite_WritesOnImport(req, pk) ==
    LET Further(ro) ==
            IF ro.err.isNil THEN ro
            ELSE IF /\ req.Method = "POST"
                    /\ \/ IsCursorPath(req.Path)
                       \/ HasAnyAPIPathPrefix(req.Path, AllowedRWAPIPaths)
            THEN [err |-> Nil, pk |-> ro.pk]
            ELSE IF /\ req.Method \in {"PUT", "PATCH", "DELETE"}
                    /\ HasAnyAPIPathPrefix(req.Path, AllowedRWAPIPaths)
            THEN [err |-> Nil, pk |-> ro.pk]
            ELSE [err |-> NotPermitted(req.Method, req.Path), pk |-> ro.pk]
    IN  Further(AllowReadOnly(req, pk))

AllowReadWrite(req, pk) ==
    LET Further(ro) ==
            IF ro.err.isNil THEN ro
            ELSE IF /\ req.Method = "POST"
                    /\ \/ IsCursorPath(req.Path)
                       \/ HasAnyAPIPathPrefix(req.Path, AllowedRWAPIPaths)
            THEN [err |-> Nil, pk |-> ro.pk]
            ELSE IF /\ req.Method \in {"PUT", "PATCH", "DELETE"}
                    /\ HasAnyAPIPathPrefix(req.Path,
                           <<"/_api/document", "/_api/collection", "/_api/index">>)
            THEN [err |-> Nil, pk |-> ro.pk]
            ELSE [err |-> NotPermitted(req.Method, req.Path), pk |-> ro.pk]
    IN  Further(AllowReadOnly(req, pk))

(***************************************************************************)
(* The requests the model serves.                                           *)
(***************************************************************************)

Methods == {"GET", "HEAD", "OPTIONS", "POST", "PUT", "PATCH", "DELETE", "TRACE"}

CursorPaths == {"/_api/cursor", "/_db/mydb/_api/cursor", "/_api/cursor/123"}

Paths ==
    CursorPaths \cup
    { "/_api/cursor/", "/_api/cursorx", "/_db//_api/cursor", "/x/_api/cursor",
      "/_api/document", "/_api/document/c/k", "/_db/mydb/_api/document/c",
      "/_api/documentx", "/foo/_api/document", "/_db/my.db/_api/document/c",
      "/_db/../_api/document/c", "/_api//document/c", "/_api/document%zz",
      "/_api/collection/c", "/_db/mydb/_api/collection", "/_api/index",
      "/_api/import", "/_db/mydb/_api/import", "/_api/importx",
      "/_api/version", "/_api/user",
      "/_admin/shutdown", "/_admin/log/level", "/_admin/../_api/document/c" }

\* JSON string literals used as query values: the text between the quotes.
QueryLiterals ==
    { "RETURN 1", "FOR i IN 1..10 RETURN i", "INSERT x", "insert x", "iNsErT x",
      "a REMOVE b", "UPDATE", "UPSERT", "REPLACE", "TRUNCATE", "DROP", "x_DROP",
      "doc.updatedAt", "doc.insertTime", "doc.removeFlag", "\\u0049NSERT x", "" }

MemberKeys == {"query", "Query", "x"}

MemberValues == {Quote(q) : q \in QueryLiterals} \cup {"5", "null"}

\* The values used in bodies of two members.
CoreValues == {Quote("RETURN 1"), Quote("INSERT x"), Quote("\\u0049NSERT x"),
               Quote("doc.insertTime"), Quote(""), "5", "null"}

Member(k, v) == Quote(k) \o ":" \o v

ObjectTexts ==
    {"{" \o Member(k, v) \o "}" : k \in MemberKeys, v \in MemberValues}
    \cup {"{" \o Member(k1, v1) \o "," \o Member(k2, v2) \o "}" :
            k1 \in MemberKeys, v1 \in CoreValues, k2 \in MemberKeys, v2 \in CoreValues}

OtherTexts ==
    { "", "{}", "null", "\"INSERT x\"", "[\"RETURN 1\"]",
      "not valid json but contains INSERT", "{\"broken: \"INSERT INTO c\"}",
      "FILTER doc.insertTime > 0", "plain text",
      "{\"query\":\"\\u0049NSERT x\"} x", " { \"query\" : \"drop\" } " }

\* The texts that are also sent padded up to, and one byte over, the limits.
PaddedTexts == {"{\"query\":\"RETURN 1\"}", "{\"query\":\"INSERT x\"}"}

PaddedLengths == {ReadOnlyPeekLimit, ReadOnlyPeekLimit + 1,
                  MaxBodyPeekSize, MaxBodyPeekSize + 1}

CursorBodies ==
    {Stream(Bytes(t, 0), FALSE) : t \in ObjectTexts \cup OtherTexts}
    \cup {Stream(Bytes(t, n - Len(t)), FALSE) : t \in PaddedTexts, n \in PaddedLengths}
    \cup {Stream(Bytes(t, 0), TRUE) : t \in PaddedTexts}
    \cup {NilBody}

OtherBodies ==
    { NilBody,
      Stream(NoBytes, FALSE),
      Stream(Bytes("{\"name\":\"INSERT\"}", 0), FALSE),
      Stream(Bytes("{\"query\":\"RETURN 1\"}", ReadOnlyPeekLimit), FALSE),
      Stream(Bytes("{\"a\":1}", 0), TRUE) }

\* An inbound request: r.Method, r.URL.Path (the decoded path), r.URL.RawQuery
\* and r.Body.
RequestWithQuery(m, p, q, b) == [Method |-> m, Path |-> p, RawQuery |-> q, Body |-> b]

Request(m, p, b) == RequestWithQuery(m, p, "", b)

\* Paths as the server decodes them from "%3F", "%23", "%2541" and "%20".
DecodedPaths ==
    { "/_api/document/c/a?b", "/_api/document/c/a?", "/_api/document/c/a#b",
      "/_api/document/c/a%41", "/_api/document/c/a b" }

RawQueries == {"batchSize=100", "waitForSync=true&returnNew=true", "q=a%20b", "q=%zz", "a?b"}

QueryPaths == {"/_api/version", "/_api/cursor/12345", "/_db/mydb/_api/document/collection"}

Requests ==
    {Request(m, p, b) : m \in Methods, p \in Paths, b \in OtherBodies}
    \cup {Request("POST", p, b) : p \in CursorPaths, b \in CursorBodies}
    \cup {RequestWithQuery(m, p, q, NilBody) :
            m \in {"GET", "DELETE"}, p \in QueryPaths \cup DecodedPaths,
            q \in RawQueries \cup {""}}

(***************************************************************************)
(* The proxy: one UnixReverseProxy serving requests one after another.      *)
(***************************************************************************)

VARIABLES
    allowFunc,     \* p.allowFunc: "AllowReadOnly" or "AllowReadWrite"
    pc,            \* where ServeHTTP stands: idle, allow, allowed, built, relay, done
    r,             \* the inbound request
    cachedBody,    \* the closure variables of bodyReader
    bodyConsumed,
    bodyClosed,    \* whether r.Body has been closed
    peekCalls,     \* the bodyReader calls of this request
    allowErr,      \* what p.allowFunc returned
    upstreamReq,   \* the request built for the upstream
    dispatches,    \* the p.client.Do calls of this request, with their outcome
    via,           \* inside p.client.Do: the requests sent and redirected so far
    resp,          \* the upstream's response
    w,             \* what has been written to the client
    fn,            \* the function called on its own, "" when none has been
    args,          \* its arguments
    ret,           \* what it returned
    heap,          \* the header maps and value slices its arguments point to
    server         \* requests served at the same time: the ServeHTTP calls in
                   \* progress, their local variables, the requests p.client has
                   \* in flight

vars == <<allowFunc, pc, r, cachedBody, bodyConsumed, bodyClosed, peekCalls,
          allowErr, upstreamReq, dispatches, via, resp, w, fn, args, ret, heap,
          server>>

\* The variables of a function called on its own, and those of requests served
\* at the same time; ServeHTTP serving one request leaves them alone.
callVars == <<fn, args, ret, heap, server>>

\* The variables of ServeHTTP; a function called on its own leaves them alone.
serveVars == <<allowFunc, pc, r, cachedBody, bodyConsumed, bodyClosed, peekCalls,
               allowErr, upstreamReq, dispatches, via, resp, w, server>>

NoRequest == Request("", "", NilBody)

NoUpstreamReq == [Method |-> "", URL |-> "", Body |-> NoBytes, ContentLength |-> 0]

NoResponse == [StatusCode |-> 0, Body |-> ""]

\* Nothing written yet: status 0.
NothingWritten == [status |-> 0, body |-> ""]

\* http.Error(w, msg, code): the status and the message as the body.
HttpError(msg, code) == [status |-> code, body |-> msg]

UpstreamStatuses == {200, 403, 502}

UpstreamBodies == {"{\"result\":[]}"}

\* The closure variables as ServeHTTP declares them: lines 133-134.
FreshPeeker ==
    [bodyConsumed |-> FALSE, cachedBody |-> NoBytes, bodyClosed |-> FALSE,
     calls |-> <<>>]

CallAllowFunc(f, req, pk) ==
    IF f = "AllowReadOnly" THEN AllowReadOnly(req, pk) ELSE AllowReadWrite(req, pk)

\* buildUpstreamURL: lines 256-265.
buildUpstreamURL(req) ==
    IF req.RawQuery # ""
    THEN "http://arangodb" \o req.Path \o "?" \o req.RawQuery
    ELSE "http://arangodb" \o req.Path

\* url.Parse rejects a path with a "%" that two hex digits do not follow;
\* http.NewRequestWithContext then fails.
ValidEscapes(path) ==
    \A i \in 1..Len(path) :
        At(path, i) = "%" => IsHex(At(path, i + 1)) /\ IsHex(At(path, i + 2))

\* strings.Cut(s, sep) for a separator of one character.
Cut(s, sep) ==
    LET At1(i) ==
            IF i = 0 THEN [before |-> s, after |-> "", found |-> FALSE]
            ELSE [before |-> IF i = 1 THEN "" ELSE SubSeq(s, 1, i - 1),
                  after  |-> From(s, i + 1),
                  found  |-> TRUE]
    IN  At1(Index(s, sep))

\* The bytes 0x20 to 0x7E in order; 0x60 stands as a space, no text here has it.
PrintableASCII ==
    " !\"#$%&'()*+,-./0123456789:;<=>?@ABCDEFGHIJKLMNOPQRSTUVWXYZ[\\]^_"
    \o " abcdefghijklmnopqrstuvwxyz{|}~"

HexValue(c) == Index(HexDigits, ToUpperChar(c)) - 1

\* url.unescape in path mode on a text with valid escapes: "%XX" becomes the
\* byte XX, everything else stays.
RECURSIVE PathUnescape(_)
PathUnescape(s) ==
    IF s = "" THEN ""
    ELSE IF At(s, 1) = "%"
    THEN At(PrintableASCII, 16 * HexValue(At(s, 2)) + HexValue(At(s, 3)) - 31)
             \o PathUnescape(From(s, 4))
    ELSE At(s, 1) \o PathUnescape(From(s, 2))

\* url.Parse on the text buildUpstreamURL returns, as http.NewRequestWithContext
\* calls it: the fragment is cut at the first "#", the query at the first "?"
\* of what is left, and the escapes of path and fragment are decoded. A query
\* is taken as it stands.
ParseUpstreamURL(text) ==
    LET Parts(u, rest) ==
            [ok       |-> ValidEscapes(rest.before) /\ ValidEscapes(u.after),
             Path     |-> IF ValidEscapes(rest.before)
                          THEN PathUnescape(rest.before) ELSE "",
             RawQuery |-> rest.after]
        AfterHost(u) == Parts(u, Cut(From(u.before, Len("http://arangodb") + 1), "?"))
    IN  AfterHost(Cut(text, "#"))

NoArgs == [fullPath |-> "", apiPath |-> ""]

NoResult == [returned |-> FALSE, value |-> FALSE, msg |-> ""]

EmptyHeap == [maps |-> <<>>, slices |-> <<>>]

\* No request is served at the same time as another.
NoServer == [handlers |-> <<>>, frames |-> <<>>, inFlight |-> {}]

Init ==
    /\ allowFunc \in {"AllowReadOnly", "AllowReadWrite"}
    /\ pc = "idle"
    /\ r = NoRequest
    /\ cachedBody = NoBytes
    /\ bodyConsumed = FALSE
    /\ bodyClosed = FALSE
    /\ peekCalls = <<>>
    /\ allowErr = Nil
    /\ upstreamReq = NoUpstreamReq
    /\ dispatches = <<>>
    /\ via = <<>>
    /\ resp = NoResponse
    /\ w = NothingWritten
    /\ fn = ""
    /\ args = NoArgs
    /\ ret = NoResult
    /\ heap = EmptyHeap
    /\ server = NoServer

\* ServeHTTP is entered with a request: lines 132-134.
Accept(req) ==
    /\ pc = "idle"
    /\ UNCHANGED callVars
    /\ pc' = "allow"
    /\ r' = req
    /\ UNCHANGED <<allowFunc, cachedBody, bodyConsumed, bodyClosed, peekCalls,
                   allowErr, upstreamReq, dispatches, via, resp, w>>

\* p.allowFunc(r, bodyReader): line 172.
CheckPolicy ==
    /\ pc = "allow"
    /\ UNCHANGED callVars
    /\ \E res \in {CallAllowFunc(allowFunc, r,
                       [bodyConsumed |-> bodyConsumed, cachedBody |-> cachedBody,
                        bodyClosed |-> bodyClosed, calls |-> peekCalls])} :
           /\ allowErr' = res.err
           /\ bodyConsumed' = res.pk.bodyConsumed
           /\ cachedBody' = res.pk.cachedBody
           /\ bodyClosed' = res.pk.bodyClosed
           /\ peekCalls' = res.pk.calls
    /\ pc' = "allowed"
    /\ UNCHANGED <<allowFunc, r, upstreamReq, dispatches, via, resp, w>>

\* The policy returned an error: lines 172-179.
Reject ==
    /\ pc = "allowed"
    /\ UNCHANGED callVars
    /\ ~allowErr.isNil
    /\ bodyClosed' = (bodyClosed \/ (~r.Body.absent /\ ~bodyConsumed))
    /\ w' = HttpError(allowErr.msg, 403)
    /\ pc' = "done"
    /\ UNCHANGED <<allowFunc, r, cachedBody, bodyConsumed, peekCalls, allowErr,
                   upstreamReq, dispatches, via, resp>>

\* upstreamBodyOf handing on r.Body, which the peek has read to its end.
upstreamBodyOf_DrainedStream(consumed, cached, body) ==
    IF consumed THEN NoBytes ELSE body.data

\* The body handed to the upstream request: lines 181-186. The stream itself
\* when the peeker did not consume it.
upstreamBodyOf(consumed, cached, body) ==
    IF consumed THEN cached ELSE body.data

\* BuildUpstream when the return after the 403 is missing.
BuildUpstream_AfterDeny ==
    /\ pc = "allowed"
    /\ UNCHANGED callVars
    /\ ParseUpstreamURL(buildUpstreamURL(r)).ok
    /\ upstreamReq' =
          [Method        |-> r.Method,
           URL           |-> buildUpstreamURL(r),
           Body          |-> upstreamBodyOf(bodyConsumed, cachedBody, r.Body),
           ContentLength |-> IF bodyConsumed THEN ByteLen(cachedBody) ELSE 0]
    /\ pc' = "built"
    /\ UNCHANGED <<allowFunc, r, cachedBody, bodyConsumed, bodyClosed, peekCalls,
                   allowErr, dispatches, via, resp, w>>

\* The upstream request is built: lines 181-198.
BuildUpstream ==
    /\ pc = "allowed"
    /\ UNCHANGED callVars
    /\ allowErr.isNil
    /\ ParseUpstreamURL(buildUpstreamURL(r)).ok
    /\ upstreamReq' =
          [Method        |-> r.Method,
           URL           |-> buildUpstreamURL(r),
           Body          |-> upstreamBodyOf(bodyConsumed, cachedBody, r.Body),
           ContentLength |-> IF bodyConsumed THEN ByteLen(cachedBody) ELSE 0]
    /\ pc' = "built"
    /\ UNCHANGED <<allowFunc, r, cachedBody, bodyConsumed, bodyClosed, peekCalls,
                   allowErr, dispatches, via, resp, w>>

\* http.NewRequestWithContext fails: lines 189-193.
BuildUpstreamFails ==
    /\ pc = "allowed"
    /\ UNCHANGED callVars
    /\ allowErr.isNil
    /\ ~ParseUpstreamURL(buildUpstreamURL(r)).ok
    /\ w' = HttpError("failed to build upstream request", 500)
    /\ pc' = "done"
    /\ UNCHANGED <<allowFunc, r, cachedBody, bodyConsumed, bodyClosed, peekCalls,
                   allowErr, upstreamReq, dispatches, via, resp>>

(***************************************************************************)
(* p.client.Do: line 200. The client is built at lines 95-108 with a        *)
(* Transport and a Timeout and no CheckRedirect, so Do follows the          *)
(* upstream's redirects itself before it returns.                           *)
(***************************************************************************)

\* The most redirects the model lets one p.client.Do call follow (net/http
\* gives up after 10).
MaxFollowed == 1

RedirectStatuses == {302, 307}

\* The Location of a redirect, a path on the upstream.
Locations == {"/_db/_system/_admin/aardvark/index.html"}

\* What makes the transport fail: the dial of line 121, the Timeout of line 107.
TransportErrors ==
    { "dial unix /run/arangodb3/arangodb.sock: connect: connection refused",
      "context deadline exceeded (Client.Timeout exceeded while awaiting headers)" }

\* Whether the body of upstreamReq can be sent a second time: it is the
\* bytes.Reader of line 184, or there is none.
Replayable == bodyConsumed \/ r.Body.absent

\* net/http redirectBehavior: 301, 302 and 303 turn every method but GET and
\* HEAD into GET and drop the body; 307 and 308 keep method and body and are
\* followed only when the body can be sent again.
redirectBehavior(reqMethod, status, replayable) ==
    IF status \in {301, 302, 303}
    THEN [method         |-> IF reqMethod \in {"GET", "HEAD"} THEN reqMethod ELSE "GET",
          shouldRedirect |-> TRUE,
          includeBody    |-> FALSE]
    ELSE IF status \in {307, 308}
    THEN [method |-> reqMethod, shouldRedirect |-> replayable, includeBody |-> TRUE]
    ELSE [method |-> reqMethod, shouldRedirect |-> FALSE, includeBody |-> FALSE]

\* The request Do sends after a redirect of the request prev.
FollowUp(prev, status, location, replayable) ==
    LET Built(b) ==
            [Method        |-> b.method,
             URL           |-> "http://arangodb" \o location,
             Body          |-> IF b.includeBody THEN prev.Body ELSE NoBytes,
             ContentLength |-> IF b.includeBody THEN prev.ContentLength ELSE 0]
    IN  Built(redirectBehavior(prev.Method, status, replayable))

\* The request Do sends next: upstreamReq, or what the last redirect led to.
Outgoing ==
    IF via = <<>> THEN upstreamReq
    ELSE FollowUp(via[Len(via)].req, via[Len(via)].StatusCode,
                  via[Len(via)].Location, Replayable)

\* url.Error as Do returns it: the method with only its first letter in upper
\* case, the quoted URL, the cause.
urlErrorOp(method) ==
    IF method = "" THEN "Get" ELSE At(method, 1) \o ToLower(From(method, 2))

DoError(req, cause) == urlErrorOp(req.Method) \o " " \o Quote(req.URL) \o ": " \o cause

\* DispatchFails answering a failed dispatch by dispatching again.
DispatchFails_Retry(cause) ==
    /\ pc = "built"
    /\ UNCHANGED callVars
    /\ Len(dispatches) < 2
    /\ dispatches' = Append(dispatches,
                            [req |-> upstreamReq, answered |-> FALSE, err |-> cause])
    /\ bodyClosed' = (bodyClosed \/ ~r.Body.absent)
    /\ IF Len(dispatches) = 1
       THEN /\ w' = HttpError("upstream error: " \o DoError(Outgoing, cause), 502)
            /\ pc' = "done"
       ELSE UNCHANGED <<w, pc>>
    /\ UNCHANGED <<allowFunc, r, cachedBody, bodyConsumed, peekCalls, allowErr,
                   upstreamReq, via, resp>>

\* The upstream answers a request of Do with a redirect: Do sends the
\* follow-up request, or returns the redirect as the response when
\* redirectBehavior says not to follow it.
DispatchRedirected(status, location) ==
    /\ pc = "built"
    /\ UNCHANGED callVars
    /\ Len(via) < MaxFollowed
    /\ bodyConsumed \/ ~r.Body.fail
    /\ bodyClosed' = (bodyClosed \/ ~r.Body.absent)
    /\ IF redirectBehavior(Outgoing.Method, status, Replayable).shouldRedirect
       THEN /\ via' = Append(via, [req |-> Outgoing, StatusCode |-> status,
                                   Location |-> location])
            /\ UNCHANGED <<pc, dispatches, resp>>
       ELSE /\ dispatches' = Append(dispatches,
                                    [req |-> upstreamReq, answered |-> TRUE, err |-> ""])
            /\ resp' = [StatusCode |-> status, Body |-> ""]
            /\ pc' = "relay"
            /\ UNCHANGED via
    /\ UNCHANGED <<allowFunc, r, cachedBody, bodyConsumed, peekCalls, allowErr,
                   upstreamReq, w>>

\* p.client.Do fails at the transport: lines 200-204. The transport closes the
\* request body.
DispatchFails(cause) ==
    /\ pc = "built"
    /\ UNCHANGED callVars
    /\ dispatches' = Append(dispatches,
                            [req |-> upstreamReq, answered |-> FALSE, err |-> cause])
    /\ bodyClosed' = (bodyClosed \/ ~r.Body.absent)
    /\ w' = HttpError("upstream error: " \o DoError(Outgoing, cause), 502)
    /\ pc' = "done"
    /\ UNCHANGED <<allowFunc, r, cachedBody, bodyConsumed, peekCalls, allowErr,
                   upstreamReq, via, resp>>

\* p.client.Do returns the upstream's response: line 200. The upstream has read
\* the request body to its end, which an inbound stream that fails to read
\* does not allow.
DispatchAnswered(status, body) ==
    /\ pc = "built"
    /\ UNCHANGED callVars
    /\ bodyConsumed \/ ~r.Body.fail
    /\ dispatches' = Append(dispatches,
                            [req |-> upstreamReq, answered |-> TRUE, err |-> ""])
    /\ bodyClosed' = (bodyClosed \/ ~r.Body.absent)
    /\ resp' = [StatusCode |-> status, Body |-> body]
    /\ pc' = "relay"
    /\ UNCHANGED <<allowFunc, r, cachedBody, bodyConsumed, peekCalls, allowErr,
                   upstreamReq, via, w>>

\* The response is relayed: lines 205-211. When io.Copy fails the status is
\* already written and the failure is only logged.
Relay(copied) ==
    /\ pc = "relay"
    /\ UNCHANGED callVars
    /\ w' = [status |-> resp.StatusCode, body |-> IF copied THEN resp.Body ELSE ""]
    /\ pc' = "done"
    /\ UNCHANGED <<allowFunc, r, cachedBody, bodyConsumed, bodyClosed, peekCalls,
                   allowErr, upstreamReq, dispatches, via, resp>>

\* ServeHTTP returns: the request, the locals of the handler and the response
\* writer are gone, and the server hands the next request to the handler.
Return ==
    /\ pc = "done"
    /\ UNCHANGED callVars
    /\ pc' = "idle"
    /\ r' = NoRequest
    /\ cachedBody' = NoBytes
    /\ bodyConsumed' = FALSE
    /\ bodyClosed' = FALSE
    /\ peekCalls' = <<>>
    /\ allowErr' = Nil
    /\ upstreamReq' = NoUpstreamReq
    /\ dispatches' = <<>>
    /\ via' = <<>>
    /\ resp' = NoResponse
    /\ w' = NothingWritten
    /\ UNCHANGED allowFunc

Next ==
    \/ \E req \in Requests : Accept(req)
    \/ CheckPolicy
    \/ Reject
    \/ BuildUpstream
    \/ BuildUpstreamFails
    \/ \E cause \in TransportErrors : DispatchFails(cause)
    \/ \E status \in RedirectStatuses, location \in Locations :
           DispatchRedirected(status, location)
    \/ \E status \in UpstreamStatuses, body \in UpstreamBodies :
           DispatchAnswered(status, body)
    \/ \E copied \in BOOLEAN : Relay(copied)
    \/ Return

Spec == Init /\ [][Next]_vars

(***************************************************************************)
(* The path matchers called on their own, and the read-write policy called  *)
(* on a request with the path.                                              *)
(***************************************************************************)

\* The paths the matchers are called with: the request paths above and more
\* shapes of database prefix, traversal, doubled slash and trailing text.
PathInputs ==
    Paths \cup
    { "", "/", "/..", "/_db/", "/_db/x", "/_db/x/", "_api/document",
      "/_api/document/", "/_api/document?x=1", "/_api/collection?x",
      "/_api/documents", "/_api/document.", "/_api/document/c/a..b",
      "/_api/index/c/12345", "/_api/index/", "/_api/import/x",
      "//_api/document", "/./_api/document/c", "/_api/./collection/c",
      "/_db/my-db_1/_api/index/7", "/_db/test_db/_api/collection",
      "/_db/my/db/_api/document", "/_db//_api/document",
      "/_db//x/_api/document", "/_db/x/./_api/document", "/_db/x//_api/import",
      "/_db/a b/_api/document", "/_db/x/_db/y/_api/document",
      "/_db/my.db/_api/cursor", "/_db/my/db/_api/cursor", "/_db//x/_api/cursor",
      "/_db/x/./_api/cursor", "//_api/cursor", "/_api/cursor/abc",
      "/_api/cursor/12a", "/_api/cursor/1/2", "/_api/cursor//1",
      "/_api/cursor/12345", "/_db/mydb/_api/cursor/999", "/_db/my-db/_api/cursor/9",
      "/prefix/_api/cursor", "/_db/../_api/cursor", "/_api/cursor/..",
      "/../_api/document/c", "/_db/mydb/../admin/_api/document",
      "/foo/_api/document/bar", "/_api/document/..", "/_api/collection/../index",
      "/_db/mydb/_api/cursor/", "/_api/cursor?x" }

\* The API paths HasAPIPathPrefix is called with: AllowedRWAPIPaths.
APIPathInputs == {AllowedRWAPIPaths[i] : i \in 1..Len(AllowedRWAPIPaths)}

WriteMethods == {"POST", "PUT", "PATCH", "DELETE"}

ServerIdle ==
    /\ allowFunc = "AllowReadWrite"
    /\ pc = "idle"
    /\ r = NoRequest
    /\ cachedBody = NoBytes
    /\ bodyConsumed = FALSE
    /\ bodyClosed = FALSE
    /\ peekCalls = <<>>
    /\ allowErr = Nil
    /\ upstreamReq = NoUpstreamReq
    /\ dispatches = <<>>
    /\ via = <<>>
    /\ resp = NoResponse
    /\ w = NothingWritten
    /\ server = NoServer

InitPath ==
    /\ ServerIdle
    /\ fn = ""
    /\ args \in [fullPath : PathInputs, apiPath : APIPathInputs]
    /\ ret = NoResult
    /\ heap = EmptyHeap

CallHasAPIPathPrefix ==
    /\ fn = ""
    /\ fn' = "HasAPIPathPrefix"
    /\ ret' = [returned |-> TRUE,
               value    |-> HasAPIPathPrefix(args.fullPath, args.apiPath),
               msg      |-> ""]
    /\ UNCHANGED <<args, heap>>
    /\ UNCHANGED serveVars

CallIsCursorPath ==
    /\ fn = ""
    /\ fn' = "IsCursorPath"
    /\ ret' = [returned |-> TRUE, value |-> IsCursorPath(args.fullPath), msg |-> ""]
    /\ UNCHANGED <<args, heap>>
    /\ UNCHANGED serveVars

\* AllowReadWrite on a request with the path and no body; value tells
\* whether it returned nil.
CallAllowReadWrite(method) ==
    /\ fn = ""
    /\ fn' = "AllowReadWrite:" \o method
    /\ \E res \in {AllowReadWrite(Request(method, args.fullPath, NilBody), FreshPeeker)} :
           ret' = [returned |-> TRUE, value |-> res.err.isNil, msg |-> res.err.msg]
    /\ UNCHANGED <<args, heap>>
    /\ UNCHANGED serveVars

NextPath ==
    \/ CallHasAPIPathPrefix
    \/ CallIsCursorPath
    \/ \E method \in WriteMethods : CallAllowReadWrite(method)

SpecPath == InitPath /\ [][NextPath]_vars

(***************************************************************************)
(* ServeHTTP with an AllowFunc that calls peek any number of times, with    *)
(* any limits, before it returns.                                           *)
(***************************************************************************)

\* The most peek calls the AllowFunc makes.
MaxPeeks == 3

PeekLimits ==
    {-1, 0, 1, 5, ReadOnlyPeekLimit, MaxBodyPeekSize, MaxBodyPeekSize + 1, 2147483647}

PeekBodies ==
    { NilBody,
      Stream(NoBytes, FALSE),
      Stream(Bytes("x", 0), FALSE),
      Stream(Bytes("{\"a\":1}", 0), TRUE) }
    \cup {Stream(Bytes("hello", n - 5), FALSE) :
            n \in {5, 6, ReadOnlyPeekLimit, ReadOnlyPeekLimit + 1,
                   MaxBodyPeekSize - 1, MaxBodyPeekSize, MaxBodyPeekSize + 1,
                   MaxBodyPeekSize + 2}}

InitPeek ==
    /\ allowFunc = "peeks"
    /\ pc = "allow"
    /\ r \in {Request("POST", "/_api/cursor", b) : b \in PeekBodies}
    /\ cachedBody = NoBytes
    /\ bodyConsumed = FALSE
    /\ bodyClosed = FALSE
    /\ peekCalls = <<>>
    /\ allowErr = Nil
    /\ upstreamReq = NoUpstreamReq
    /\ dispatches = <<>>
    /\ via = <<>>
    /\ resp = NoResponse
    /\ w = NothingWritten
    /\ fn = ""
    /\ args = NoArgs
    /\ ret = NoResult
    /\ heap = EmptyHeap
    /\ server = NoServer

\* The AllowFunc calls peek(limit): lines 136-170.
Peek(limit) ==
    /\ pc = "allow"
    /\ Len(peekCalls) < MaxPeeks
    /\ \E res \in {bodyReader([bodyConsumed |-> bodyConsumed, cachedBody |-> cachedBody,
                               bodyClosed |-> bodyClosed, calls |-> peekCalls],
                              r.Body, limit)} :
           /\ bodyConsumed' = res.pk.bodyConsumed
           /\ cachedBody' = res.pk.cachedBody
           /\ bodyClosed' = res.pk.bodyClosed
           /\ peekCalls' = res.pk.calls
    /\ UNCHANGED <<allowFunc, pc, r, allowErr, upstreamReq, dispatches, via, resp, w>>
    /\ UNCHANGED callVars

NextPeek == \E limit \in PeekLimits : Peek(limit)

SpecPeek == InitPeek /\ [][NextPeek]_vars

(***************************************************************************)
(* Headers (proxy_common.go). An http.Header is a map from key to a slice   *)
(* of values. The heap holds the maps and the slices: a header is the       *)
(* number of its map in heap.maps, a map takes each key to the number of    *)
(* its slice in heap.slices. Two headers share a value list when they hold  *)
(* the same slice number.                                                   *)
(***************************************************************************)

hopByHopHeaders ==
    <<"Connection", "Proxy-Connection", "Keep-Alive", "TE", "Trailer",
      "Transfer-Encoding", "Upgrade">>

\* The bytes a header field name may hold (textproto's token table).
HeaderTokenChars == LowerLetters \o UpperLetters \o Digits \o "!#$%&'*+-.^_|~"

\* The letter walk of textproto.CanonicalMIMEHeaderKey: a letter is made upper
\* case at the start and after "-", lower case elsewhere.
RECURSIVE CanonicalFrom(_, _, _)
CanonicalFrom(s, i, upper) ==
    IF i > Len(s) THEN ""
    ELSE (IF upper THEN ToUpperChar(At(s, i)) ELSE ToLowerChar(At(s, i)))
         \o CanonicalFrom(s, i + 1, At(s, i) = "-")

\* http.CanonicalHeaderKey: a name holding a byte that is no token byte is
\* returned as it is.
CanonicalHeaderKey(s) ==
    IF AllIn(s, HeaderTokenChars) THEN CanonicalFrom(s, 1, TRUE) ELSE s

\* strings.Split(s, ","): the pieces between commas, empty ones included.
RECURSIVE SplitComma(_, _, _)
SplitComma(s, i, cur) ==
    IF i > Len(s) THEN <<cur>>
    ELSE IF At(s, i) = "," THEN <<cur>> \o SplitComma(s, i + 1, "")
         ELSE SplitComma(s, i + 1, cur \o At(s, i))

IsSpace(c) == c \in {" ", "\t", "\n", "\r"}

RECURSIVE TrimLeft(_)
TrimLeft(s) == IF s # "" /\ IsSpace(At(s, 1)) THEN TrimLeft(From(s, 2)) ELSE s

RECURSIVE TrimRight(_)
TrimRight(s) ==
    IF s # "" /\ IsSpace(At(s, Len(s))) THEN TrimRight(SubSeq(s, 1, Len(s) - 1)) ELSE s

\* strings.TrimSpace.
TrimSpace(s) == TrimRight(TrimLeft(s))

NoKeys == [k \in {} |-> 0]

\* m[key] = id.
MapSet(m, key, id) ==
    [k \in DOMAIN m \cup {key} |-> IF k = key THEN id ELSE m[k]]

\* delete(m, key).
MapDelete(m, key) == [k \in DOMAIN m \ {key} |-> m[k]]

\* A header and the heap it lives in, as a function's result.
InHeap(h, id) == [heap |-> h, id |-> id]

\* make(http.Header).
MakeHeader(h) ==
    InHeap([maps |-> Append(h.maps, NoKeys), slices |-> h.slices], Len(h.maps) + 1)

\* h[header][key] = a new slice holding values.
PutNewSlice(h, header, key, values) ==
    [maps   |-> [h.maps EXCEPT ![header] = MapSet(@, key, Len(h.slices) + 1)],
     slices |-> Append(h.slices, values)]

\* The header by value: each key with its values.
Content(h, header) ==
    [k \in DOMAIN h.maps[header] |-> h.slices[h.maps[header][k]]]

\* header.Values(key).
HeaderValues(h, header, key) ==
    IF CanonicalHeaderKey(key) \in DOMAIN h.maps[header]
    THEN h.slices[h.maps[header][CanonicalHeaderKey(key)]]
    ELSE <<>>

\* header.Del(key).
HeaderDel(h, header, key) ==
    [maps   |-> [h.maps EXCEPT ![header] = MapDelete(@, CanonicalHeaderKey(key))],
     slices |-> h.slices]

\* header.Add(key, value): h[key] = append(h[key], value). A key that is not
\* in the map yet gets a new slice.
HeaderAdd(h, header, key, value) ==
    LET Add(ck) ==
            IF ck \in DOMAIN h.maps[header]
            THEN [maps   |-> h.maps,
                  slices |-> [h.slices EXCEPT ![h.maps[header][ck]] = Append(@, value)]]
            ELSE PutNewSlice(h, header, ck, <<value>>)
    IN  Add(CanonicalHeaderKey(key))

\* The loop of cloneHeader over the keys of src still to copy: lines 248-252.
RECURSIVE CloneKeys(_, _, _, _)
CloneKeys(h, src, cloned, keys) ==
    IF keys = {} THEN h
    ELSE LET Step(key) ==
                 CloneKeys(PutNewSlice(h, cloned, key, h.slices[h.maps[src][key]]),
                           src, cloned, keys \ {key})
         IN  Step(CHOOSE key \in keys : TRUE)

\* cloneHeader returning src itself.
cloneHeader_SameMap(h, src) == InHeap(h, src)

cloneHeader(h, src) ==
    LET Into(made) ==
            InHeap(CloneKeys(made.heap, src, made.id, DOMAIN h.maps[src]), made.id)
    IN  Into(MakeHeader(h))

\* header.Del for each token of one Connection value: lines 232-238.
RECURSIVE DelTokens(_, _, _, _)
DelTokens(h, header, tokens, i) ==
    IF i > Len(tokens) THEN h
    ELSE LET Step(headerName) ==
                 IF headerName = "" THEN DelTokens(h, header, tokens, i + 1)
                 ELSE DelTokens(HeaderDel(h, header, CanonicalHeaderKey(headerName)),
                                header, tokens, i + 1)
         IN  Step(TrimSpace(tokens[i]))

\* The loop over connectionValues: lines 231-239.
RECURSIVE DelNamed(_, _, _, _)
DelNamed(h, header, connectionValues, i) ==
    IF i > Len(connectionValues) THEN h
    ELSE DelNamed(DelTokens(h, header, SplitComma(connectionValues[i], 1, ""), 1),
                  header, connectionValues, i + 1)

\* The loop over hopByHopHeaders: lines 241-243.
RECURSIVE DelHopByHop(_, _, _)
DelHopByHop(h, header, i) ==
    IF i > Len(hopByHopHeaders) THEN h
    ELSE DelHopByHop(HeaderDel(h, header, hopByHopHeaders[i]), header, i + 1)

\* stripHopHeaders dropping the fixed list only.
stripHopHeaders_FixedListOnly(h, header) == DelHopByHop(h, header, 1)

stripHopHeaders(h, header) ==
    DelHopByHop(DelNamed(h, header, HeaderValues(h, header, "Connection"), 1),
                header, 1)

\* for key := range dst { dst.Del(key) }: lines 218-220.
RECURSIVE DelAll(_, _, _)
DelAll(h, dst, keys) ==
    IF keys = {} THEN h
    ELSE LET Step(key) == DelAll(HeaderDel(h, dst, key), dst, keys \ {key})
         IN  Step(CHOOSE key \in keys : TRUE)

\* dst.Add(key, value) for the values of one key: lines 223-225.
RECURSIVE AddValues(_, _, _, _, _)
AddValues(h, dst, key, values, i) ==
    IF i > Len(values) THEN h
    ELSE AddValues(HeaderAdd(h, dst, key, values[i]), dst, key, values, i + 1)

\* The loop over cleaned: lines 222-226.
RECURSIVE AddAll(_, _, _, _)
AddAll(h, dst, cleaned, keys) ==
    IF keys = {} THEN h
    ELSE LET Step(key) ==
                 AddAll(AddValues(h, dst, key, h.slices[h.maps[cleaned][key]], 1),
                        dst, cleaned, keys \ {key})
         IN  Step(CHOOSE key \in keys : TRUE)

copyHeaders(h, dst, src) ==
    LET Fill(s, cleaned) ==
            AddAll(DelAll(s, dst, DOMAIN s.maps[dst]), dst, cleaned,
                   DOMAIN s.maps[cleaned])
        Stripped(c) == Fill(stripHopHeaders(c.heap, c.id), c.id)
    IN  Stripped(cloneHeader(h, src))

\* A header literal: a new map with a new slice for each key of content.
RECURSIVE PutAll(_, _, _, _)
PutAll(h, header, content, keys) ==
    IF keys = {} THEN h
    ELSE LET Step(key) ==
                 PutAll(PutNewSlice(h, header, key, content[key]), header, content,
                        keys \ {key})
         IN  Step(CHOOSE key \in keys : TRUE)

HeaderLiteral(h, content) ==
    LET Into(made) == InHeap(PutAll(made.heap, made.id, content, DOMAIN content), made.id)
    IN  Into(MakeHeader(h))

\* The Connection values of the source header; <<>> for no Connection header.
ConnectionInputs ==
    { <<>>, <<"keep-alive">>, <<"close">>, <<"X-Custom-Header, X-Another">>,
      <<"close", "x-custom-header">>, <<" x_CUSTOM ,, te\t">>, <<"">>,
      <<"X Another,upgrade">>, <<"content-type">> }

\* The other fields a source header is made of.
FieldInputs ==
    [k \in {"Content-Type", "X-Custom-Header", "X-Another", "X-Preserved", "X_custom",
            "Keep-Alive", "Transfer-Encoding", "Te", "Trailer", "Upgrade",
            "Proxy-Connection"} |->
        CASE k = "Content-Type"      -> <<"application/json">>
          [] k = "X-Custom-Header"   -> <<"value1", "value2">>
          [] k = "X-Another"         -> <<"value2">>
          [] k = "X-Preserved"       -> <<"b", "a", "b">>
          [] k = "X_custom"          -> <<"u">>
          [] k = "Keep-Alive"        -> <<"timeout=5">>
          [] k = "Transfer-Encoding" -> <<"chunked">>
          [] k = "Te"                -> <<"trailers">>
          [] k = "Trailer"           -> <<"Expires">>
          [] k = "Upgrade"           -> <<"websocket">>
          [] k = "Proxy-Connection"  -> <<"keep-alive">>]

FieldSets ==
    { {}, {"Content-Type"}, {"Content-Type", "X-Custom-Header", "X-Another", "X-Preserved"},
      {"Keep-Alive", "Transfer-Encoding", "Content-Type"},
      {"Te", "Trailer", "Upgrade", "Proxy-Connection", "X-Preserved"},
      {"X_custom", "X-Custom-Header", "Te"},
      {"Content-Type", "X-Custom-Header", "Transfer-Encoding"},
      DOMAIN FieldInputs }

SourceContent(connection, fields) ==
    [k \in fields \cup (IF connection = <<>> THEN {} ELSE {"Connection"}) |->
        IF k = "Connection" THEN connection ELSE FieldInputs[k]]

SourceContents ==
    {SourceContent(c, f) : c \in ConnectionInputs, f \in FieldSets}

\* What the destination holds beforehand.
DestinationContents ==
    { NoKeys,
      [k \in {"X-Old-Header"} |-> <<"old-value">>],
      [k \in {"X-Old-Header", "Content-Type", "X-Custom-Header"} |->
          IF k = "X-Custom-Header" THEN <<"value0">> ELSE <<"text/plain">>] }

\* dst is header 1 and src is header 2 of the heap.
HeaderHeap(dstContent, srcContent) ==
    HeaderLiteral(HeaderLiteral(EmptyHeap, dstContent).heap, srcContent).heap

InitHeaders ==
    /\ ServerIdle
    /\ fn = ""
    /\ ret = NoResult
    /\ \E d \in DestinationContents, c \in SourceContents :
           \E h \in {HeaderHeap(d, c)} :
               /\ heap = h
               /\ args = [dst |-> 1, src |-> 2, before |-> h]

\* stripHopHeaders(src), as the tests call it.
CallStripHopHeaders ==
    /\ fn = ""
    /\ fn' = "stripHopHeaders"
    /\ heap' = stripHopHeaders(heap, args.src)
    /\ ret' = [returned |-> TRUE, value |-> TRUE, msg |-> "", header |-> args.src]
    /\ UNCHANGED args
    /\ UNCHANGED serveVars

\* cloned := cloneHeader(src).
CallCloneHeader ==
    /\ fn = ""
    /\ fn' = "cloneHeader"
    /\ \E res \in {cloneHeader(heap, args.src)} :
           /\ heap' = res.heap
           /\ ret' = [returned |-> TRUE, value |-> TRUE, msg |-> "", header |-> res.id]
    /\ UNCHANGED args
    /\ UNCHANGED serveVars

\* copyHeaders(dst, src): line 195 for the upstream request, line 207 for the
\* client's response.
CallCopyHeaders(direction) ==
    /\ fn = ""
    /\ fn' = "copyHeaders:" \o direction
    /\ heap' = copyHeaders(heap, args.dst, args.src)
    /\ ret' = [returned |-> TRUE, value |-> TRUE, msg |-> "", header |-> args.dst]
    /\ UNCHANGED args
    /\ UNCHANGED serveVars

NextHeaders ==
    \/ CallStripHopHeaders
    \/ CallCloneHeader
    \/ \E direction \in {"upstream", "client"} : CallCopyHeaders(direction)

SpecHeaders == InitHeaders /\ [][NextHeaders]_vars

(***************************************************************************)
(* One proxy serving several requests at the same time: net/http runs       *)
(* ServeHTTP in a goroutine of its own for every connection. A handler is    *)
(* one such ServeHTTP call; its frame holds the variables the call declares  *)
(* at lines 132-134, which the bodyReader closure captures. p.allowFunc and  *)
(* p.client belong to the proxy and are the same for all handlers.           *)
(***************************************************************************)

\* The most requests served at the same time.
MaxHandlers == 2

Handlers == 1..MaxHandlers

ConcurrentRequests ==
    { Request("GET", "/_api/version", NilBody),
      Request("GET", "/_api/document%zz", NilBody),
      Request("POST", "/_api/cursor", Stream(Bytes("{\"query\":\"RETURN 1\"}", 0), FALSE)),
      Request("POST", "/_api/cursor", Stream(Bytes("{\"query\":\"INSERT x\"}", 0), FALSE)),
      Request("POST", "/_api/cursor",
              Stream(Bytes("{\"query\":\"RETURN 1\"}", ReadOnlyPeekLimit), FALSE)),
      Request("POST", "/_api/document/c", Stream(Bytes("{\"a\":1}", 0), FALSE)) }

IdleHandler ==
    [pc |-> "idle", r |-> NoRequest, allowErr |-> Nil, upstreamReq |-> NoUpstreamReq,
     resp |-> NoResponse, w |-> NothingWritten]

\* FrameOf when cachedBody and bodyConsumed are kept in one place for the
\* whole proxy.
FrameOf_OnProxy(h) == 1

\* The frame of the handler h: cachedBody and bodyConsumed are local variables
\* of ServeHTTP (lines 132-134), so every call has its own.
FrameOf(h) == h

\* The variables of a proxy that serves one request after another.
aloneVars == <<pc, r, cachedBody, bodyConsumed, bodyClosed, peekCalls, allowErr,
               upstreamReq, dispatches, via, resp, w, fn, args, ret, heap>>

InitConcurrent ==
    /\ allowFunc \in {"AllowReadOnly", "AllowReadWrite"}
    /\ pc = "idle"
    /\ r = NoRequest
    /\ cachedBody = NoBytes
    /\ bodyConsumed = FALSE
    /\ bodyClosed = FALSE
    /\ peekCalls = <<>>
    /\ allowErr = Nil
    /\ upstreamReq = NoUpstreamReq
    /\ dispatches = <<>>
    /\ via = <<>>
    /\ resp = NoResponse
    /\ w = NothingWritten
    /\ fn = ""
    /\ args = NoArgs
    /\ ret = NoResult
    /\ heap = EmptyHeap
    /\ server = [handlers |-> [h \in Handlers |-> IdleHandler],
                 frames   |-> [h \in Handlers |-> FreshPeeker],
                 inFlight |-> {}]

\* A step of the handler h: its own record, the frames and the requests in
\* flight as given; everything else as it was.
HandlerStep(h, handler, frames, inFlight) ==
    /\ server' = [handlers |-> [server.handlers EXCEPT ![h] = handler],
                  frames   |-> frames,
                  inFlight |-> inFlight]
    /\ UNCHANGED allowFunc
    /\ UNCHANGED aloneVars

\* ServeHTTP is entered: lines 131-134.
AcceptOn(h, req) ==
    /\ server.handlers[h].pc = "idle"
    /\ HandlerStep(h, [IdleHandler EXCEPT !.pc = "allow", !.r = req],
                   [server.frames EXCEPT ![FrameOf(h)] = FreshPeeker],
                   server.inFlight)

\* p.allowFunc(r, bodyReader): line 172.
CheckPolicyOn(h) ==
    /\ server.handlers[h].pc = "allow"
    /\ \E res \in {CallAllowFunc(allowFunc, server.handlers[h].r,
                                 server.frames[FrameOf(h)])} :
           HandlerStep(h, [server.handlers[h] EXCEPT !.pc = "allowed",
                                                     !.allowErr = res.err],
                       [server.frames EXCEPT ![FrameOf(h)] = res.pk],
                       server.inFlight)

\* Lines 172-179.
RejectOn(h) ==
    /\ server.handlers[h].pc = "allowed"
    /\ ~server.handlers[h].allowErr.isNil
    /\ HandlerStep(h, [server.handlers[h] EXCEPT
                          !.pc = "done",
                          !.w = HttpError(server.handlers[h].allowErr.msg, 403)],
                   server.frames, server.inFlight)

\* Lines 181-198.
BuildUpstreamOn(h) ==
    /\ server.handlers[h].pc = "allowed"
    /\ server.handlers[h].allowErr.isNil
    /\ ParseUpstreamURL(buildUpstreamURL(server.handlers[h].r)).ok
    /\ HandlerStep(h,
          [server.handlers[h] EXCEPT
              !.pc = "built",
              !.upstreamReq =
                  [Method        |-> server.handlers[h].r.Method,
                   URL           |-> buildUpstreamURL(server.handlers[h].r),
                   Body          |-> upstreamBodyOf(
                                         server.frames[FrameOf(h)].bodyConsumed,
                                         server.frames[FrameOf(h)].cachedBody,
                                         server.handlers[h].r.Body),
                   ContentLength |-> IF server.frames[FrameOf(h)].bodyConsumed
                                     THEN ByteLen(server.frames[FrameOf(h)].cachedBody)
                                     ELSE 0]],
          server.frames, server.inFlight)

\* Lines 189-193.
BuildUpstreamFailsOn(h) ==
    /\ server.handlers[h].pc = "allowed"
    /\ server.handlers[h].allowErr.isNil
    /\ ~ParseUpstreamURL(buildUpstreamURL(server.handlers[h].r)).ok
    /\ HandlerStep(h, [server.handlers[h] EXCEPT
                          !.pc = "done",
                          !.w = HttpError("failed to build upstream request", 500)],
                   server.frames, server.inFlight)

\* p.client.Do is called: line 200. The request is in the hands of the
\* client all handlers share.
DispatchOn(h) ==
    /\ server.handlers[h].pc = "built"
    /\ HandlerStep(h, [server.handlers[h] EXCEPT !.pc = "sent"],
                   server.frames, server.inFlight \cup {h})

\* p.client.Do returns an error: lines 200-204.
DispatchFailsOn(h, cause) ==
    /\ server.handlers[h].pc = "sent"
    /\ HandlerStep(h, [server.handlers[h] EXCEPT
                          !.pc = "done",
                          !.w = HttpError("upstream error: "
                                    \o DoError(server.handlers[h].upstreamReq, cause),
                                  502)],
                   server.frames, server.inFlight \ {h})

\* p.client.Do returns a response, the last one when it followed redirects.
DispatchAnsweredOn(h, status, body) ==
    /\ server.handlers[h].pc = "sent"
    /\ HandlerStep(h, [server.handlers[h] EXCEPT
                          !.pc = "relay",
                          !.resp = [StatusCode |-> status, Body |-> body]],
                   server.frames, server.inFlight \ {h})

\* Lines 205-211.
RelayOn(h, copied) ==
    /\ server.handlers[h].pc = "relay"
    /\ HandlerStep(h, [server.handlers[h] EXCEPT
                          !.pc = "done",
                          !.w = [status |-> server.handlers[h].resp.StatusCode,
                                 body   |-> IF copied THEN server.handlers[h].resp.Body
                                            ELSE ""]],
                   server.frames, server.inFlight)

\* ServeHTTP returns: its local variables are gone.
ReturnOn(h) ==
    /\ server.handlers[h].pc = "done"
    /\ HandlerStep(h, IdleHandler,
                   [server.frames EXCEPT ![FrameOf(h)] = FreshPeeker],
                   server.inFlight)

NextConcurrent ==
    \E h \in Handlers :
        \/ \E req \in ConcurrentRequests : AcceptOn(h, req)
        \/ CheckPolicyOn(h)
        \/ RejectOn(h)
        \/ BuildUpstreamOn(h)
        \/ BuildUpstreamFailsOn(h)
        \/ DispatchOn(h)
        \/ \E cause \in TransportErrors : DispatchFailsOn(h, cause)
        \/ \E body \in UpstreamBodies : DispatchAnsweredOn(h, 200, body)
        \/ \E copied \in BOOLEAN : RelayOn(h, copied)
        \/ ReturnOn(h)

SpecConcurrent == InitConcurrent /\ [][NextConcurrent]_vars

(***************************************************************************)
(* Properties.                                                              *)
(***************************************************************************)

\* p.allowFunc has returned for the request being served.
PolicyReturned == pc \notin {"idle", "allow"}

Denied == PolicyReturned /\ ~allowErr.isNil

Allowed == PolicyReturned /\ allowErr.isNil

IsCursorPost == r.Method = "POST" /\ IsCursorPath(r.Path)

\* Some bodyReader call of the request returned an error.
PeekFailed == \E i \in 1..Len(peekCalls) : ~peekCalls[i].err.isNil

\* The keyword stands in upper at position i as a whole word: the letters
\* A-Z around it, if any, are not part of the same run.
KeywordAt(upper, kw, i) ==
    /\ i + Len(kw) - 1 <= Len(upper)
    /\ SubSeq(upper, i, i + Len(kw) - 1) = kw
    /\ NotAZ(At(upper, i - 1))
    /\ NotAZ(At(upper, i + Len(kw)))

WholeWordKeywords(text) ==
    LET In(upper) ==
            {kw \in ForbiddenAQLKeywords :
                \E i \in 1..Len(upper) : KeywordAt(upper, kw, i)}
    IN  In(ToUpper(text))

\* The string values of the members named exactly "query" of the object
\* whose members start at k: what a reader that matches member names exactly
\* may take as the query (any of them, when several members bear the name).
RECURSIVE ExactQueryValues(_, _)
ExactQueryValues(s, k) ==
    LET Here(key, v) ==
            IF key = "query" /\ At(s, v) = "\"" THEN {Unquote(s, v + 1)} ELSE {}
        Rest(n) ==
            IF At(s, n) = "," THEN ExactQueryValues(s, SkipWS(s, n + 1)) ELSE {}
        Value(key, v) == Here(key, v) \cup Rest(SkipWS(s, ValueEnd(s, v)))
        Colon(key, c) == Value(key, SkipWS(s, c + 1))
    IN  IF At(s, k) # "\"" THEN {}
        ELSE Colon(Unquote(s, k + 1), SkipWS(s, StringEnd(s, k + 1)))

UpstreamQueryTexts(text) ==
    IF ValidJSON(text) /\ At(text, SkipWS(text, 1)) = "{"
    THEN ExactQueryValues(text, SkipWS(text, SkipWS(text, 1) + 1))
    ELSE {}

C2_ReadOnlyQueryHasNoWriteKeyword ==
    (allowFunc = "AllowReadOnly" /\ Allowed /\ IsCursorPost) =>
        \A q \in UpstreamQueryTexts(r.Body.data.text) : WholeWordKeywords(q) = {}

\* C3: when a body peek fails, the request is rejected with 403 and the
\* inspection error, and nothing is built or dispatched for the upstream.
C3_PeekFailureRejects ==
    (PolicyReturned /\ PeekFailed) =>
        /\ \E i \in 1..Len(peekCalls) : allowErr = peekCalls[i].err
        /\ ~allowErr.isNil
        /\ upstreamReq = NoUpstreamReq
        /\ dispatches = <<>>
        /\ pc = "done" => w = [status |-> 403, body |-> allowErr.msg]

\* C4: the body the upstream receives with a forwarded request is the inbound
\* request's body, byte for byte.
C4_ForwardedBodyIsInboundBody ==
    \A i \in 1..Len(dispatches) :
        dispatches[i].answered => dispatches[i].req.Body = r.Body.data

\* C5: what the read-only policy allows, the read-write policy allows.
C5_ReadWriteAllowsWhatReadOnlyAllows ==
    (allowFunc = "AllowReadWrite" /\ PolicyReturned
        /\ AllowReadOnly(r, FreshPeeker).err.isNil) => allowErr.isNil

C5_Witness ==
    /\ allowFunc = "AllowReadWrite"
    /\ pc = "allowed"
    /\ IsCursorPost
    /\ AllowReadOnly(r, FreshPeeker).err.isNil
    /\ allowErr.isNil

\* The cases in which the read-write policy grants what the read-only policy
\* does not.
ReadWriteGrants(method, path) ==
    \/ /\ method = "POST"
       /\ \/ IsCursorPath(path)
          \/ \E api \in {"/_api/document", "/_api/collection", "/_api/index",
                         "/_api/import"} : HasAPIPathPrefix(path, api)
    \/ /\ method \in {"PUT", "PATCH", "DELETE"}
       /\ \E api \in {"/_api/document", "/_api/collection", "/_api/index"} :
              HasAPIPathPrefix(path, api)

UnderAdmin(path) == HasPrefix(path, "/_admin/")

\* C7 as stated: the read-write policy denies every request under /_admin/
\* whose method is not GET.
C7_AdminDeniedExceptGet ==
    (allowFunc = "AllowReadWrite" /\ PolicyReturned
        /\ UnderAdmin(r.Path) /\ r.Method # "GET") => ~allowErr.isNil

\* C7 as amended: the read-write policy denies every request under /_admin/
\* whose method is not GET, HEAD or OPTIONS.
C7_AdminDeniedExceptReadMethods ==
    (allowFunc = "AllowReadWrite" /\ PolicyReturned
        /\ UnderAdmin(r.Path) /\ r.Method \notin {"GET", "HEAD", "OPTIONS"}) =>
        ~allowErr.isNil

C7_Witness ==
    /\ allowFunc = "AllowReadWrite"
    /\ pc = "allowed"
    /\ r.Path = "/_admin/../_api/document/c"
    /\ r.Method = "POST"
    /\ ~allowErr.isNil

\* C8: apart from POST on a cursor endpoint, the read-only policy allows
\* exactly GET, HEAD and OPTIONS on any path and DELETE on a cursor endpoint,
\* and denies the rest with "method <M> not permitted on <path>".
C8_ReadOnlyMethodTable ==
    (allowFunc = "AllowReadOnly" /\ PolicyReturned /\ ~IsCursorPost) =>
        /\ allowErr.isNil <=>
              \/ r.Method \in {"GET", "HEAD", "OPTIONS"}
              \/ r.Method = "DELETE" /\ IsCursorPath(r.Path)
        /\ ~allowErr.isNil =>
              allowErr.msg = "method " \o r.Method \o " not permitted on " \o r.Path

C8_Witness ==
    /\ allowFunc = "AllowReadOnly"
    /\ pc = "allowed"
    /\ r.Method = "PUT"
    /\ r.Path = "/_api/cursor/123"
    /\ allowErr.msg = "method PUT not permitted on /_api/cursor/123"

\* The read-only policy has peeked the body of a POST on a cursor endpoint
\* and got it.
CursorBodyInspected ==
    /\ allowFunc = "AllowReadOnly"
    /\ PolicyReturned
    /\ IsCursorPost
    /\ ~PeekFailed

\* json.Unmarshal gave the body's query text, and it is not empty.
HasQueryText(text) ==
    LET Has(u) == ~u.err /\ u.Query # "" IN Has(Unmarshal(text))

\* C9: a body that parses with a non-empty query text is denied iff a forbidden
\* keyword is a maximal run of letters A-Z of the upper-cased query text, and
\* the reason then names such a keyword.
C9_QueryDeniedIffWholeWordKeyword ==
    (CursorBodyInspected /\ HasQueryText(r.Body.data.text)) =>
        /\ ~allowErr.isNil <=>
              WholeWordKeywords(Unmarshal(r.Body.data.text).Query) # {}
        /\ ~allowErr.isNil =>
              \E kw \in WholeWordKeywords(Unmarshal(r.Body.data.text).Query) :
                  allowErr.msg = "forbidden keyword \"" \o kw \o "\" detected in AQL"

C9_Witness ==
    /\ CursorBodyInspected
    /\ pc = "allowed"
    /\ Unmarshal(r.Body.data.text).Query = "doc.updatedAt"
    /\ ~Unmarshal(r.Body.data.text).err
    /\ allowErr.isNil

\* C10: a body that does not parse, or has no query text, is denied iff its
\* upper-cased bytes contain a forbidden keyword as a substring.
C10_FallbackDeniedIffSubstring ==
    (CursorBodyInspected /\ ~HasQueryText(r.Body.data.text)) =>
        (~allowErr.isNil <=>
            \E kw \in ForbiddenAQLKeywords : Contains(ToUpper(r.Body.data.text), kw))

C10_Witness ==
    /\ CursorBodyInspected
    /\ pc = "allowed"
    /\ r.Body.data.text = "FILTER doc.insertTime > 0"
    /\ allowErr.msg = "forbidden keyword \"INSERT\" detected in request body"

\* A matcher, or the read-write policy, has been called on its own and has
\* returned.
Called(name) == fn = name /\ ret.returned

PolicyCalled == ret.returned /\ HasPrefix(fn, "AllowReadWrite:")

HasDotDotSegment(path) ==
    \E i \in 1..Len(SplitSlash(path, 1, "")) : SplitSlash(path, 1, "")[i] = ".."

\* C11: for a path with a ".." segment HasAPIPathPrefix returns false for every
\* API path, and the read-write policy grants no write method on it.
C11_DotDotSegmentNeverMatches ==
    HasDotDotSegment(args.fullPath) =>
        /\ Called("HasAPIPathPrefix") => ~ret.value
        /\ PolicyCalled => ~ret.value

C11_Witness ==
    /\ Called("HasAPIPathPrefix")
    /\ args.fullPath = "/_api/collection/../index"
    /\ args.apiPath = "/_api/index"
    /\ ~ret.value

ValidDBName(name) == name # "" /\ AllIn(name, DBNameChars)

\* text starts with prefix, and what follows the prefix, if anything, starts
\* with "/" or "?".
StartsAtBoundary(text, prefix) ==
    /\ HasPrefix(text, prefix)
    /\ At(text, Len(prefix) + 1) \in {"", "/", "?"}

\* The cursor pattern without a database prefix.
CursorTail(text) ==
    \/ text = "/_api/cursor"
    \/ /\ HasPrefix(text, "/_api/cursor/")
       /\ Len(text) > 13
       /\ AllIn(From(text, 14), Digits)

\* C12: a path "/_db/" name suffix, where the name is empty, holds a "/" or a
\* character outside [A-Za-z0-9_-], is rejected by HasAPIPathPrefix and by
\* IsCursorPath also when the suffix alone is the API path at a boundary, or
\* a cursor path.
C12_InvalidDatabaseNameRejected ==
    (ret.returned /\ HasPrefix(args.fullPath, "/_db/")) =>
        \A k \in 5..Len(args.fullPath) :
            ~ValidDBName(SubSeq(args.fullPath, 6, k)) =>
                /\ (/\ fn = "HasAPIPathPrefix"
                    /\ StartsAtBoundary(From(args.fullPath, k + 1), args.apiPath))
                       => ~ret.value
                /\ (fn = "IsCursorPath" /\ CursorTail(From(args.fullPath, k + 1)))
                       => ~ret.value

\* filepath.Clean of the path, rooted.
Normalized(path) ==
    IF HasPrefix(Clean(path), "/") THEN Clean(path) ELSE "/" \o Clean(path)

\* text starts with apiPath at a boundary, directly or behind one
\* "/_db/<name>" with a valid name.
StartsWithAPIPath(text, apiPath) ==
    \/ StartsAtBoundary(text, apiPath)
    \/ /\ HasPrefix(text, "/_db/")
       /\ \E k \in 6..Len(text) :
              /\ ValidDBName(SubSeq(text, 6, k))
              /\ StartsAtBoundary(From(text, k + 1), apiPath)

\* C13: HasAPIPathPrefix is true iff the raw path has no ".." segment and the
\* normalized path starts with apiPath at a boundary, directly or behind one
\* valid database prefix.
C13_HasAPIPathPrefixIff ==
    Called("HasAPIPathPrefix") =>
        (ret.value <=>
            /\ ~HasDotDotSegment(args.fullPath)
            /\ StartsWithAPIPath(Normalized(args.fullPath), args.apiPath))

\* C14 as stated: HasAPIPathPrefix is false for every path that holds apiPath
\* but does not start with it at a boundary, directly or behind one valid
\* database prefix.
C14_MatchesOnlyAtStartOfPath ==
    (/\ Called("HasAPIPathPrefix")
     /\ Contains(args.fullPath, args.apiPath)
     /\ ~StartsWithAPIPath(args.fullPath, args.apiPath)) => ~ret.value

\* C14 as amended: HasAPIPathPrefix is true only for a path whose normalized
\* form starts with apiPath at a boundary, directly or behind one valid
\* database prefix.
C14_MatchesOnlyAtStartOfNormalizedPath ==
    (Called("HasAPIPathPrefix") /\ ret.value) =>
        \/ StartsAtBoundary(Normalized(args.fullPath), args.apiPath)
        \/ \E k \in 6..Len(Normalized(args.fullPath)) :
              /\ HasPrefix(Normalized(args.fullPath), "/_db/")
              /\ ValidDBName(SubSeq(Normalized(args.fullPath), 6, k))
              /\ StartsAtBoundary(From(Normalized(args.fullPath), k + 1), args.apiPath)

C14_Witness ==
    /\ Called("HasAPIPathPrefix")
    /\ args.fullPath = "/_api/documentx"
    /\ args.apiPath = "/_api/document"
    /\ ~ret.value

\* The text behind the first segment after "/_db/", when that segment is a
\* valid database name; the whole path otherwise.
BehindDBPrefix(path) ==
    IF /\ HasPrefix(path, "/_db/")
       /\ Index(From(path, 6), "/") > 1
       /\ ValidDBName(SubSeq(path, 6, 4 + Index(From(path, 6), "/")))
    THEN From(path, 5 + Index(From(path, 6), "/"))
    ELSE path

\* C15: IsCursorPath is true iff the whole path is an optional "/_db/<name>"
\* with a valid name, then "/_api/cursor", then optionally "/" and one or more
\* digits.
C15_IsCursorPathIff ==
    Called("IsCursorPath") =>
        (ret.value <=> CursorTail(BehindDBPrefix(args.fullPath)))

C15_Witness ==
    /\ Called("IsCursorPath")
    /\ args.fullPath = "/_db/my-db/_api/cursor/9"
    /\ ret.value

\* C16: when the policy has peeked the body of an allowed request and got it,
\* the upstream request carries the peeked bytes, which are the inbound body,
\* and its content length is their number.
C16_PeekedBytesGoUpstream ==
    (Allowed /\ peekCalls # <<>> /\ ~PeekFailed /\ upstreamReq # NoUpstreamReq) =>
        /\ \A i \in 1..Len(peekCalls) :
              /\ peekCalls[i].data = r.Body.data
              /\ upstreamReq.Body = peekCalls[i].data
        /\ upstreamReq.ContentLength = ByteLen(r.Body.data)
        /\ \A i \in 1..Len(dispatches) : dispatches[i].req.Body = r.Body.data

C16_Witness ==
    /\ Allowed
    /\ pc = "relay"
    /\ peekCalls # <<>>
    /\ ~PeekFailed
    /\ ByteLen(r.Body.data) = ReadOnlyPeekLimit
    /\ upstreamReq.ContentLength = ReadOnlyPeekLimit

\* C17: after a peek call that returned no error, every later peek call of
\* the request, whatever its limit, returns the same bytes and no error.
C17_LaterPeeksReturnSnapshot ==
    \A i \in 1..Len(peekCalls) : \A j \in 1..Len(peekCalls) :
        (i < j /\ peekCalls[i].err.isNil) =>
            /\ peekCalls[j].err.isNil
            /\ peekCalls[j].data = peekCalls[i].data
            /\ ~peekCalls[j].touched

C17_Witness ==
    /\ Len(peekCalls) = 3
    /\ peekCalls[1].limit = ReadOnlyPeekLimit
    /\ peekCalls[1].err.isNil
    /\ ByteLen(peekCalls[1].data) = ReadOnlyPeekLimit
    /\ peekCalls[2].limit = 1
    /\ peekCalls[3].limit = -1
    /\ peekCalls[3].data = r.Body.data

\* The limit the claim gives for a first peek(limit).
ClaimedLimit(limit) ==
    IF 0 < limit /\ limit <= 16 * 1024 * 1024 THEN limit ELSE 16 * 1024 * 1024

\* C18: the first peek(limit) call on a readable body of N bytes returns an
\* error iff N is greater than the effective limit, which is limit when
\* 0 < limit <= MaxBodyPeekSize and MaxBodyPeekSize otherwise; when it returns
\* no error it returns the whole body.
C18_FirstPeekLimit ==
    (peekCalls # <<>> /\ ~r.Body.fail) =>
        /\ ~peekCalls[1].err.isNil <=>
              ByteLen(r.Body.data) > ClaimedLimit(peekCalls[1].limit)
        /\ peekCalls[1].err.isNil => peekCalls[1].data = r.Body.data

C18_Witness ==
    /\ Len(peekCalls) = 1
    /\ peekCalls[1].limit = 0
    /\ ByteLen(r.Body.data) = MaxBodyPeekSize
    /\ peekCalls[1].err.isNil
    /\ peekCalls[1].data = r.Body.data

\* A header has been sanitized: by stripHopHeaders itself, or by copyHeaders
\* on the way into dst.
Sanitized == ret.returned /\ (fn = "stripHopHeaders" \/ HasPrefix(fn, "copyHeaders:"))

\* The header handed in, and the sanitized header, each by value.
InputHeader == Content(args.before, args.src)

OutputHeader == Content(heap, ret.header)

\* Header names are compared without regard to letter case.
SameHeaderName(a, b) == ToUpper(a) = ToUpper(b)

IsHopByHop(key) ==
    \E name \in {"Connection", "Proxy-Connection", "Keep-Alive", "TE", "Trailer",
                 "Transfer-Encoding", "Upgrade"} : SameHeaderName(key, name)

\* key is named by the text between two commas (or an end) of value.
NamedByValue(key, value) ==
    \E i \in 1..Len(value) : \E j \in i..Len(value) :
        /\ i = 1 \/ At(value, i - 1) = ","
        /\ j = Len(value) \/ At(value, j + 1) = ","
        /\ ~Contains(SubSeq(value, i, j), ",")
        /\ SameHeaderName(key, TrimSpace(SubSeq(value, i, j)))

NamedByConnection(key, header) ==
    /\ "Connection" \in DOMAIN header
    /\ \E n \in 1..Len(header["Connection"]) :
           NamedByValue(key, header["Connection"][n])

Dropped(key, header) == IsHopByHop(key) \/ NamedByConnection(key, header)

\* C19: the sanitized header holds no hop-by-hop header and no header named by
\* a token of a Connection value of the input; every other header of the
\* input is in it with the same values in the same order.
C19_SanitizedHeaders ==
    Sanitized =>
        /\ \A key \in DOMAIN OutputHeader : ~Dropped(key, InputHeader)
        /\ \A key \in DOMAIN InputHeader :
              ~Dropped(key, InputHeader) =>
                  /\ key \in DOMAIN OutputHeader
                  /\ OutputHeader[key] = InputHeader[key]

C19_Witness ==
    /\ Sanitized
    /\ fn = "stripHopHeaders"
    /\ DOMAIN InputHeader = {"Connection", "X_custom", "X-Custom-Header", "Te"}
    /\ InputHeader["Connection"] = <<" x_CUSTOM ,, te\t">>
    /\ DOMAIN OutputHeader = {"X-Custom-Header"}
    /\ OutputHeader["X-Custom-Header"] = <<"value1", "value2">>

\* The slices a header holds.
SlicesOf(h, header) == {h.maps[header][key] : key \in DOMAIN h.maps[header]}

\* C20: after copyHeaders(dst, src), towards the upstream and towards the
\* client, dst holds the headers of src that sanitizing keeps, with their
\* values, and nothing else; src is as it was; dst and src share no slice.
C20_CopyHeadersReplacesDst ==
    (ret.returned /\ HasPrefix(fn, "copyHeaders:")) =>
        /\ DOMAIN Content(heap, args.dst) =
              {key \in DOMAIN InputHeader : ~Dropped(key, InputHeader)}
        /\ \A key \in DOMAIN Content(heap, args.dst) :
              Content(heap, args.dst)[key] = InputHeader[key]
        /\ heap.maps[args.src] = args.before.maps[args.src]
        /\ Content(heap, args.src) = InputHeader
        /\ SlicesOf(heap, args.dst) \cap SlicesOf(heap, args.src) = {}

C20_Witness ==
    /\ ret.returned
    /\ fn = "copyHeaders:client"
    /\ DOMAIN Content(args.before, args.dst) =
           {"X-Old-Header", "Content-Type", "X-Custom-Header"}
    /\ DOMAIN InputHeader =
           {"Connection", "Content-Type", "X-Custom-Header", "Transfer-Encoding"}
    /\ InputHeader["Connection"] = <<"keep-alive">>
    /\ DOMAIN Content(heap, args.dst) = {"Content-Type", "X-Custom-Header"}
    /\ Content(heap, args.dst)["X-Custom-Header"] = <<"value1", "value2">>
    /\ Content(heap, args.src) = InputHeader

\* The requests the upstream has been sent for the inbound request: those Do
\* was redirected from, and the one each returned Do call ended with.
UpstreamRequestsSent == Len(via) + Len(dispatches)

\* A p.client.Do call of the request returned an error.
DispatchFailed == \E i \in 1..Len(dispatches) : ~dispatches[i].answered

ClaimedURL(req) ==
    "http://arangodb" \o req.Path
        \o (IF req.RawQuery # "" THEN "?" \o req.RawQuery ELSE "")

\* C22: the upstream request is built from the host, the inbound path and the
\* raw query, with "?" only before a non-empty query, and the path and the
\* query it targets are those of the inbound request.
C22_UpstreamTargetsInboundPathAndQuery ==
    upstreamReq # NoUpstreamReq =>
        /\ upstreamReq.URL = ClaimedURL(r)
        /\ ParseUpstreamURL(upstreamReq.URL).Path = r.Path
        /\ ParseUpstreamURL(upstreamReq.URL).RawQuery = r.RawQuery

\* The text of the URL alone is as the claim says.
C22_URLTextIsHostPathQuery ==
    upstreamReq # NoUpstreamReq => upstreamReq.URL = ClaimedURL(r)

\* With no "?", "#" or "%" in the decoded path, the upstream request targets
\* the inbound path and query.
C22_SameTargetForPlainPaths ==
    (/\ upstreamReq # NoUpstreamReq
     /\ ~Contains(r.Path, "?") /\ ~Contains(r.Path, "#") /\ ~Contains(r.Path, "%")) =>
        /\ ParseUpstreamURL(upstreamReq.URL).Path = r.Path
        /\ ParseUpstreamURL(upstreamReq.URL).RawQuery = r.RawQuery

\* The status the upstream answered the forwarded request with: that of the
\* first answer Do received.
UpstreamAnswerStatus == IF via # <<>> THEN via[1].StatusCode ELSE resp.StatusCode

\* The outcome of a request ServeHTTP is done with.
Outcome ==
    IF Denied THEN "rejected"
    ELSE IF upstreamReq = NoUpstreamReq THEN "build-error"
    ELSE IF DispatchFailed THEN "upstream-error"
    ELSE "relayed"

\* C23: nothing is written before the request ends; a request that has ended
\* has one outcome and one status: 403 when the policy returned an error, 500
\* when the upstream request could not be built, 502 when the dispatch failed,
\* and otherwise the status the upstream answered with, whether or not the
\* copy of the response body failed.
C23_OneOutcomeOneStatus ==
    /\ pc # "done" => w = NothingWritten
    /\ pc = "done" =>
          /\ Outcome = "rejected" => w.status = 403 /\ dispatches = <<>>
          /\ Outcome = "build-error" => w.status = 500 /\ dispatches = <<>>
          /\ Outcome = "upstream-error" => w.status = 502 /\ resp = NoResponse
          /\ Outcome = "relayed" =>
                /\ Len(dispatches) = 1
                /\ w.status = UpstreamAnswerStatus

\* The same with the status of the response p.client.Do returned in place of
\* the upstream's answer to the forwarded request.
C23_StatusOfReturnedResponse ==
    /\ pc # "done" => w = NothingWritten
    /\ pc = "done" =>
          /\ Outcome = "rejected" => w.status = 403 /\ dispatches = <<>>
          /\ Outcome = "build-error" => w.status = 500 /\ dispatches = <<>>
          /\ Outcome = "upstream-error" => w.status = 502 /\ resp = NoResponse
          /\ Outcome = "relayed" =>
                /\ Len(dispatches) = 1
                /\ w.status = resp.StatusCode
                /\ w.body \in {resp.Body, ""}

\* The steps of a request: received, policy-checked, rejected or forwarding,
\* relayed or upstream-error; the response is written in the step that ends
\* the request and in no other.
C23_StepsOfARequest ==
    [][/\ <<pc, pc'>> \in
             { <<"idle", "allow">>, <<"allow", "allowed">>, <<"allowed", "done">>,
               <<"allowed", "built">>, <<"built", "built">>, <<"built", "relay">>,
               <<"built", "done">>, <<"relay", "done">>, <<"done", "idle">> }
       /\ w' # w => (w = NothingWritten /\ pc' = "done") \/ pc = "done"]_serveVars

\* What p.allowFunc returns, and leaves in the closure variables, for the
\* request of the handler h when nothing else is served.
AloneResults ==
    [f \in {"AllowReadOnly", "AllowReadWrite"}, req \in ConcurrentRequests \cup {NoRequest}
        |-> CallAllowFunc(f, req, FreshPeeker)]

ServedAlone(h) == AloneResults[allowFunc, server.handlers[h].r]

\* The handler h stands where its policy has returned.
DecidedOn(h) == server.handlers[h].pc \notin {"idle", "allow"}

\* The decision, the closure variables and the forwarded body of every
\* handler are those of its own request served alone.
OwnDecisionAndBody ==
    \A h \in Handlers :
        \A alone \in {ServedAlone(h)} :
            /\ DecidedOn(h) =>
                  /\ server.handlers[h].allowErr = alone.err
                  /\ server.frames[h] = alone.pk
            /\ ~DecidedOn(h) => server.frames[h] = FreshPeeker
            /\ server.handlers[h].upstreamReq # NoUpstreamReq =>
                  /\ server.handlers[h].upstreamReq.Body =
                        upstreamBodyOf(alone.pk.bodyConsumed, alone.pk.cachedBody,
                                       server.handlers[h].r.Body)
                  /\ server.handlers[h].upstreamReq.ContentLength =
                        IF alone.pk.bodyConsumed
                        THEN ByteLen(alone.pk.cachedBody) ELSE 0

\* A step changes the record of one handler at most, and the closure
\* variables of no other handler; between handlers only the set of requests
\* the client has in flight is shared.
OwnFrameOnly ==
    \A g \in Handlers, h \in Handlers :
        (g # h /\ server'.handlers[h] # server.handlers[h]) =>
            /\ server'.handlers[g] = server.handlers[g]
            /\ server'.frames[g] = server.frames[g]

\* C24: under every interleaving of the requests served at the same time, the
\* policy decision of a request and the body forwarded for it are those of the
\* request served alone, and no step of a request writes the cached snapshot
\* or the consumed flag of another.
C24_RequestsAreIndependent == []OwnDecisionAndBody /\ [][OwnFrameOnly]_server

C24_Witness ==
    /\ allowFunc = "AllowReadWrite"
    /\ server.inFlight = {1, 2}
    /\ server.handlers[1].r.Path = "/_api/cursor"
    /\ server.handlers[2].r.Path = "/_api/document/c"
    /\ server.frames[1].bodyConsumed
    /\ server.frames[1].cachedBody.text = "{\"query\":\"INSERT x\"}"
    /\ ~server.frames[2].bodyConsumed
    /\ server.handlers[1].upstreamReq.Body.text = "{\"query\":\"INSERT x\"}"
    /\ server.handlers[2].upstreamReq.Body.text = "{\"a\":1}"

\* C25: of the peek calls of a request only the first reads the body stream;
\* it reads at most one byte more than the limit the claim gives, which is
\* min(limit, 16 MiB), and 16 MiB for a limit of zero or less; when it
\* returns, with or without an error, the stream is closed; no later call
\* touches the stream.
C25_OnlyFirstPeekReadsTheStream ==
    /\ \A i \in 1..Len(peekCalls) :
          /\ peekCalls[i].read <= ClaimedLimit(peekCalls[i].limit) + 1
          /\ peekCalls[i].read <= ByteLen(r.Body.data)
          /\ i > 1 => ~peekCalls[i].touched /\ peekCalls[i].read = 0
          /\ peekCalls[i].touched <=> (i = 1 /\ ~r.Body.absent)
    /\ (peekCalls # <<>> /\ ~r.Body.absent) => bodyClosed
    /\ peekCalls = <<>> => ~bodyClosed

C25_Witness ==
    /\ Len(peekCalls) = 3
    /\ peekCalls[1].limit = 0
    /\ ByteLen(r.Body.data) = MaxBodyPeekSize + 2
    /\ peekCalls[1].touched
    /\ peekCalls[1].read = MaxBodyPeekSize + 1
    /\ ~peekCalls[1].err.isNil
    /\ bodyClosed
    /\ peekCalls[2].limit = 2147483647
    /\ ~peekCalls[2].touched
    /\ ~peekCalls[3].touched

\* C26: the policy calls peek for a POST on a cursor path only, and once at
\* most; for every other request it allows, nothing is cached, the body
\* stream is still unread and open when the upstream request is dispatched,
\* and the upstream request carries the inbound body with no content length
\* set.
C26_BodyReadOnlyForCursorPost ==
    /\ Len(peekCalls) <= 1
    /\ peekCalls # <<>> => IsCursorPost
    /\ (Allowed /\ ~IsCursorPost) =>
          /\ peekCalls = <<>>
          /\ ~bodyConsumed
          /\ cachedBody = NoBytes
          /\ (pc = "allowed" \/ (pc = "built" /\ via = <<>>)) => ~bodyClosed
          /\ upstreamReq # NoUpstreamReq =>
                /\ upstreamReq.Body = r.Body.data
                /\ upstreamReq.ContentLength = 0
          /\ \A i \in 1..Len(dispatches) : dispatches[i].req.Body = r.Body.data

C26_Witness ==
    /\ allowFunc = "AllowReadWrite"
    /\ Allowed
    /\ r.Method = "POST"
    /\ r.Path = "/_api/document"
    /\ r.Body.data.text = "{\"name\":\"INSERT\"}"
    /\ pc = "relay"
    /\ peekCalls = <<>>
    /\ ~bodyConsumed
    /\ dispatches[1].req.Body = r.Body.data
    /\ dispatches[1].req.ContentLength = 0

\* The first peek call of the request returned an error.
FirstPeekFailed == peekCalls # <<>> /\ ~peekCalls[1].err.isNil

\* C27: after a first peek call that returned an error, every later peek call
\* of the request returns an error too, and the request is not taken as one
\* whose body has been consumed into a snapshot to forward.
C27_FailedPeekStaysFailed ==
    FirstPeekFailed =>
        /\ \A j \in 2..Len(peekCalls) : ~peekCalls[j].err.isNil
        /\ ~bodyConsumed

\* The two halves of C27, each on its own.
C27_LaterPeeksFail ==
    FirstPeekFailed => \A j \in 2..Len(peekCalls) : ~peekCalls[j].err.isNil

C27_NotTakenAsConsumed == FirstPeekFailed => ~bodyConsumed

====
